---------------------------- MODULE Spec2Model ----------------------------
(***************************************************************************)
(* Model of forge's task graph (src/src/features.rs), of the places that   *)
(* claim tasks through the shared task store (src/src/tui.rs) and of the   *)
(* headless loops that run agents round after round (src/src/runner.rs).   *)
(*                                                                         *)
(* A Feature is a record with the fields of struct Feature that the        *)
(* scheduler reads or writes: id, feature_type, depends_on, priority,      *)
(* status, claimed_by, blocked_reason.  The fields scope, description,     *)
(* verify and context_hints are never read or written by FeatureList's     *)
(* methods and are left out.  A feature id "f00<n>" is the number n; the   *)
(* id NumTasks + 1 (and beyond) names no feature of the list.              *)
(* An Option<String> is either None or the string.                         *)
(***************************************************************************)
EXTENDS Integers, Sequences, FiniteSets, TLC

VARIABLES
    features,       \* the FeatureList a caller holds (FeatureList.features)
    ret,            \* the last FeatureList method called, its arguments and result
    store,          \* features.json: the FeatureList last saved
    pc,             \* per runner process: its position in open_next_feature_pane
    snap,           \* per runner process: the FeatureList it loaded
    pick,           \* per runner process: feature_id of the feature it selected
    next_agent_id,  \* per runner process: the counter behind "agent-{n}"
    handed,         \* per runner process: the panes opened, as <<feature_id, agent_id>>
    config,         \* RunConfig of a headless run, and whether project_dir is a git repo
    rpc,            \* the headless loop's position in run_single_agent / run_multi_agent
    session,        \* the loop's session counter
    stop,           \* whether the stop sentinel .forge/stop exists
    outcome,        \* the RunOutcome returned, kind "none" while the loop runs
    entries,        \* feature_entries: the feature ids selected in this round
    workers,        \* this round's executor agents, in the order of handles
    idx,            \* the index of the for loop the round is in
    main,           \* the main line: the branches merged in this round, and
                    \* whether a merge is left unresolved in it
    report,         \* the failures this round has printed, as <<what, agent_id>>
    panes,          \* run_tui: the panes, in order, as [feature_id, agent_id, exited]
    active_pane,    \* run_tui: the active pane's position, 0 for None
    command_mode,   \* run_tui: whether the next key is a multiplexer command
    tpc,            \* run_tui: its position in the function
    scan,           \* run_tui: the index i of the replacement loop
    key,            \* run_tui: of the key event just read, whether it is the
                    \* chord and the pane it was forwarded to, until the
                    \* replacement loop runs
    area,           \* the pane area a frame is laid out in
    nr_panes,       \* the number of panes laid out
    rects,          \* the rectangles grid_rect gave the panes
    child,          \* PtyPane: the child process, "running" or "exited"
    watcher,        \* PtyPane: the exit-watcher thread's position
    reader,         \* PtyPane: the reader thread's position
    exited,         \* PtyPane.exited
    parser,         \* PtyPane.parser: the screen size and the bytes processed
    last_size,      \* PtyPane.last_size
    output,         \* the chunks the child has written and the reader has not read
    chan,           \* the mpsc channel behind PtyPane.sender
    sent,           \* every chunk sent through PtyPane.sender, in order
    writer,         \* PtyPane: the writer thread's position and the chunk it holds
    pty_in,         \* the bytes the pseudo-terminal has taken from the writer
    winsize,        \* the pseudo-terminal's window size (TIOCSWINSZ)
    resized,        \* the resize_to_inner call of the last step, if it made
                    \* one: its argument and whether it called ioctl
    master_fd,      \* PtyPane.master_fd
    hups,           \* the libc::kill(pid, SIGHUP) calls made for the child
    closes,         \* the libc::close(master_fd) calls made
    dropped,        \* whether the PtyPane has been dropped
    last_done_count, \* run_orchestration: the done count that last ran verify
    opc,            \* run_orchestration: the position of its loop
    poll,           \* run_orchestration: what the last iteration did
    fresh,          \* the features marked done since the last iteration
    actor           \* the execution context that took the last step

listVars == <<features, ret>>
raceVars == <<store, pc, snap, pick, next_agent_id, handed>>
runVars == <<config, rpc, session, stop, outcome, entries, workers, idx, main, report>>
tuiVars == <<panes, active_pane, command_mode, tpc, scan, key>>
gridVars == <<area, nr_panes, rects>>
ptyVars == <<child, watcher, reader, exited, parser, last_size, output, chan,
             sent, writer, pty_in, winsize, resized, master_fd, hups, closes,
             dropped, actor>>
orchVars == <<last_done_count, opc, poll, fresh>>
uiVars == <<tuiVars, gridVars, ptyVars, orchVars>>
vars == <<features, ret, store, pc, snap, pick, next_agent_id, handed,
          config, rpc, session, stop, outcome, entries, workers, idx, main, report,
          panes, active_pane, command_mode, tpc, scan, key,
          area, nr_panes, rects,
          child, watcher, reader, exited, parser, last_size, output, chan,
          sent, writer, pty_in, winsize, resized, master_fd, hups, closes,
          dropped, actor, last_done_count, opc, poll, fresh>>

---------------------------------------------------------------------------
(* Bounds *)

\* number of features in the list the mutating operations work on
NumTasks == 2
\* number of features in the lists the queries are applied to
NumQueryTasks == 3
\* number of features in the store the two runner processes race on
NumRaceTasks == 2
\* number of features in the lists milestone_claimable is applied to
NumMilestoneTasks == 3
\* cap on a runner process's agent counter
MaxAgentId == 3
\* number of features in the store of a headless run
NumRunTasks == 2
\* largest max_sessions a headless run is configured with
MaxSessionsBound == 2
\* largest num_agents a headless run is configured with
NumAgents == 2
\* number of features in the store of an interactive run
NumTuiTasks == 3
\* largest width and height of a pane area
MaxSide == 5
\* largest x and y of a pane area's corner
MaxOrigin == 1
\* the pane counts the layout is stated for: 1 to 9
MaxPanes == 9
\* number of chunks the child of a pane writes
MaxOutput == 2
\* number of chunks sent to a pane
MaxChunks == 2
\* number of kill() calls made on a pane before it is dropped
MaxKills == 2
\* number of features the background orchestration watches
NumOrchTasks == 2

---------------------------------------------------------------------------
(* Values *)

None == "None"

Pending == "pending"
Claimed == "claimed"
Done == "done"
Blocked == "blocked"
FeatureStatus == {Pending, Claimed, Done, Blocked}

Implement == "implement"
Review == "review"
Poc == "poc"

default_priority == 1
Priorities == {default_priority, default_priority + 1}

AgentNames == <<"agent-1", "agent-2", "agent-3", "agent-4", "agent-5", "agent-6">>
Agents == {AgentNames[1], AgentNames[2]}
Reasons == {"stuck on compile error"}

Ok == "Ok"
NotFound == "NotFound"
AlreadyClaimed == "AlreadyClaimed"
DepsNotMet == "DepsNotMet"

Feature(id, ty, deps, prio, st, by, why) ==
    [id |-> id, feature_type |-> ty, depends_on |-> deps, priority |-> prio,
     status |-> st, claimed_by |-> by, blocked_reason |-> why]

---------------------------------------------------------------------------
(* Helpers standing for Rust iterator adaptors *)

contains(seq, x) == \E k \in 1..Len(seq) : seq[k] = x

\* iter().position: index of the first feature with this id, 0 when there is none
find(fs, feature_id) ==
    IF \E i \in 1..Len(fs) : fs[i].id = feature_id
    THEN CHOOSE i \in 1..Len(fs) :
            /\ fs[i].id = feature_id
            /\ \A j \in 1..(i - 1) : fs[j].id # feature_id
    ELSE 0

Indices(fs) == [i \in 1..Len(fs) |-> i]

\* the ids of the Done features, in list order
done_ids(fs) ==
    LET d == SelectSeq(Indices(fs), LAMBDA i : fs[i].status = Done)
    IN  [k \in 1..Len(d) |-> fs[d[k]].id]

\* the status filter alone
is_claimable_ignores_deps(fs, f) == f.status = Pending

\* the two filters every query applies
is_claimable(fs, f) ==
    /\ f.status = Pending
    /\ \A k \in 1..Len(f.depends_on) : contains(done_ids(fs), f.depends_on[k])

\* the filtered iterator, as the positions of the features it yields
claimable(fs) == SelectSeq(Indices(fs), LAMBDA i : is_claimable(fs, fs[i]))

\* a fold that moves on to a later element of equal priority
RECURSIVE min_fold_keeps_last(_, _, _)
min_fold_keeps_last(fs, rest, best) ==
    IF rest = <<>> THEN best
    ELSE min_fold_keeps_last(fs, Tail(rest),
                  IF fs[Head(rest)].priority <= fs[best].priority
                  THEN Head(rest) ELSE best)

\* Iterator::min_by_key on priority: a fold that keeps the element it holds
\* unless the next one is strictly smaller; 0 stands for Option::None
RECURSIVE min_fold(_, _, _)
min_fold(fs, rest, best) ==
    IF rest = <<>> THEN best
    ELSE min_fold(fs, Tail(rest),
                  IF fs[Head(rest)].priority < fs[best].priority
                  THEN Head(rest) ELSE best)

min_by_key(fs, idxs) ==
    IF idxs = <<>> THEN 0 ELSE min_fold(fs, Tail(idxs), Head(idxs))

\* an insertion that puts x before the elements of equal priority
insert_before_equals(fs, sorted, x) ==
    LET k == Cardinality({j \in 1..Len(sorted) :
                            fs[sorted[j]].priority < fs[x].priority})
    IN  SubSeq(sorted, 1, k) \o <<x>> \o SubSeq(sorted, k + 1, Len(sorted))

\* slice::sort_by_key on priority: a stable sort (insertion sort here)
insert_stable(fs, sorted, x) ==
    LET k == Cardinality({j \in 1..Len(sorted) :
                            fs[sorted[j]].priority <= fs[x].priority})
    IN  SubSeq(sorted, 1, k) \o <<x>> \o SubSeq(sorted, k + 1, Len(sorted))

RECURSIVE sort_by_key(_, _)
sort_by_key(fs, idxs) ==
    IF idxs = <<>> THEN <<>>
    ELSE insert_stable(fs, sort_by_key(fs, SubSeq(idxs, 1, Len(idxs) - 1)),
                       idxs[Len(idxs)])

truncate(seq, n) == IF Len(seq) <= n THEN seq ELSE SubSeq(seq, 1, n)

---------------------------------------------------------------------------
(* FeatureList queries: each returns positions in the list (a &Feature) *)

next_claimable(fs) == min_by_key(fs, claimable(fs))

next_n_claimable(fs, n) == truncate(sort_by_key(fs, claimable(fs)), n)

\* next_after without the preference for the features completed_id unblocks
next_after_no_preference(fs, completed_id) == min_by_key(fs, claimable(fs))

next_after(fs, completed_id) ==
    LET unblocked ==
            min_by_key(fs, SelectSeq(claimable(fs),
                           LAMBDA i : contains(fs[i].depends_on, completed_id)))
    IN  IF unblocked # 0 THEN unblocked
        ELSE min_by_key(fs, claimable(fs))

---------------------------------------------------------------------------
(* milestone_claimable.  A group is [ms |-> the milestone's id, ids |-> the *)
(* claimable ids of the group]; the empty milestone id "" is the number 0.  *)
(* feature_map is a HashMap keyed by id; the lists here have no two         *)
(* features with one id, so feature_map.get(id) is the feature find gives.  *)

\* the sort key of an id that is no feature's: u32::MAX in the source, here
\* the largest integer the model checker has; both exceed every priority
priority_of_unknown == 2147483647

feature_priority(fs, id) ==
    LET i == find(fs, id) IN IF i = 0 THEN priority_of_unknown ELSE fs[i].priority

\* one step of the insertion that a stable sort of ids by priority makes
insert_id(fs, sorted, x) ==
    LET k == Cardinality({j \in 1..Len(sorted) :
                 feature_priority(fs, sorted[j]) <= feature_priority(fs, x)})
    IN  SubSeq(sorted, 1, k) \o <<x>> \o SubSeq(sorted, k + 1, Len(sorted))

RECURSIVE sort_ids(_, _)
sort_ids(fs, ids) ==
    IF ids = <<>> THEN <<>>
    ELSE insert_id(fs, sort_ids(fs, SubSeq(ids, 1, Len(ids) - 1)), ids[Len(ids)])

claimable_ids(fs) == [k \in 1..Len(claimable(fs)) |-> fs[claimable(fs)[k]].id]

SeqToSet(seq) == {seq[k] : k \in 1..Len(seq)}

\* a walk that stops at the milestone's direct dependencies
RECURSIVE bfs_direct_only(_, _, _, _, _, _)
bfs_direct_only(fs, claimable_set, queue, visited, frontier, assigned) ==
    IF queue = <<>> THEN [frontier |-> frontier, assigned |-> assigned]
    ELSE LET dep_id == Head(queue)
             take   == dep_id \in claimable_set /\ dep_id \notin assigned
         IN  IF dep_id \in visited
             THEN bfs_direct_only(fs, claimable_set, Tail(queue), visited,
                                  frontier, assigned)
             ELSE bfs_direct_only(fs, claimable_set, Tail(queue),
                      visited \cup {dep_id},
                      IF take THEN Append(frontier, dep_id) ELSE frontier,
                      IF take THEN assigned \cup {dep_id} ELSE assigned)

\* the while-let loop over the queue of one milestone
RECURSIVE bfs(_, _, _, _, _, _)
bfs(fs, claimable_set, queue, visited, frontier, assigned) ==
    IF queue = <<>> THEN [frontier |-> frontier, assigned |-> assigned]
    ELSE LET dep_id == Head(queue)
             take   == dep_id \in claimable_set /\ dep_id \notin assigned
             i      == find(fs, dep_id)
         IN  IF dep_id \in visited
             THEN bfs(fs, claimable_set, Tail(queue), visited, frontier, assigned)
             ELSE bfs(fs, claimable_set,
                      IF i # 0 THEN Tail(queue) \o fs[i].depends_on
                               ELSE Tail(queue),
                      visited \cup {dep_id},
                      IF take THEN Append(frontier, dep_id) ELSE frontier,
                      IF take THEN assigned \cup {dep_id} ELSE assigned)

\* a loop in which every milestone's walk starts with nothing assigned
RECURSIVE milestone_groups_overlapping(_, _, _, _, _)
milestone_groups_overlapping(fs, claimable_set, milestones, result, assigned) ==
    IF milestones = <<>> THEN [result |-> result, assigned |-> assigned]
    ELSE LET ms == fs[Head(milestones)]
             b  == bfs(fs, claimable_set, ms.depends_on, {}, <<>>, {})
             frontier == sort_ids(fs, b.frontier)
         IN  milestone_groups_overlapping(fs, claimable_set, Tail(milestones),
                 IF frontier # <<>>
                 THEN Append(result, [ms |-> ms.id, ids |-> frontier])
                 ELSE result,
                 assigned \cup b.assigned)

\* the for loop over the milestones (positions in fs), in their sorted order
RECURSIVE milestone_groups(_, _, _, _, _)
milestone_groups(fs, claimable_set, milestones, result, assigned) ==
    IF milestones = <<>> THEN [result |-> result, assigned |-> assigned]
    ELSE LET ms == fs[Head(milestones)]
             b  == bfs(fs, claimable_set, ms.depends_on, {}, <<>>, assigned)
             frontier == sort_ids(fs, b.frontier)
         IN  milestone_groups(fs, claimable_set, Tail(milestones),
                 IF frontier # <<>>
                 THEN Append(result, [ms |-> ms.id, ids |-> frontier])
                 ELSE result,
                 b.assigned)

\* iter_order is the order in which the HashSet claimable_set is iterated
milestone_claimable(fs, iter_order) ==
    LET claimable_set == SeqToSet(claimable_ids(fs)) IN
    IF claimable_set = {} THEN <<>>
    ELSE LET milestones ==
                 sort_by_key(fs, SelectSeq(Indices(fs), LAMBDA i :
                     fs[i].feature_type = Review /\ fs[i].status # Done))
             g == milestone_groups(fs, claimable_set, milestones, <<>>, {})
             orphans == sort_ids(fs, SelectSeq(iter_order,
                                     LAMBDA id : id \notin g.assigned))
         IN  IF orphans # <<>>
             THEN Append(g.result, [ms |-> 0, ids |-> orphans])
             ELSE g.result

---------------------------------------------------------------------------
(* FeatureList mutators: each returns the list afterwards and the Result *)

Res(fs, result, who, unmet) ==
    [list |-> fs, result |-> result, who |-> who, unmet |-> unmet]

\* claim without the dependency check
claim_skips_deps(fs, feature_id, agent_id) ==
    LET i == find(fs, feature_id) IN
    IF i = 0 THEN Res(fs, NotFound, None, <<>>)
    ELSE IF fs[i].claimed_by # None
    THEN Res(fs, AlreadyClaimed, fs[i].claimed_by, <<>>)
    ELSE Res([fs EXCEPT ![i].status = Claimed, ![i].claimed_by = agent_id],
             Ok, None, <<>>)

\* claim that looks at the dependencies before it looks at claimed_by
claim_deps_first(fs, feature_id, agent_id) ==
    LET i == find(fs, feature_id) IN
    IF i = 0 THEN Res(fs, NotFound, None, <<>>)
    ELSE LET unmet == SelectSeq(fs[i].depends_on,
                                LAMBDA dep : ~contains(done_ids(fs), dep))
         IN  IF unmet # <<>> THEN Res(fs, DepsNotMet, None, unmet)
             ELSE IF fs[i].claimed_by # None
             THEN Res(fs, AlreadyClaimed, fs[i].claimed_by, <<>>)
             ELSE Res([fs EXCEPT ![i].status = Claimed,
                                 ![i].claimed_by = agent_id],
                      Ok, None, <<>>)

\* claim that records the claimant before it has looked at the dependencies
claim_sets_then_checks(fs, feature_id, agent_id) ==
    LET i == find(fs, feature_id) IN
    IF i = 0 THEN Res(fs, NotFound, None, <<>>)
    ELSE IF fs[i].claimed_by # None
    THEN Res(fs, AlreadyClaimed, fs[i].claimed_by, <<>>)
    ELSE LET unmet == SelectSeq(fs[i].depends_on,
                                LAMBDA dep : ~contains(done_ids(fs), dep))
             set == [fs EXCEPT ![i].claimed_by = agent_id]
         IN  IF unmet # <<>> THEN Res(set, DepsNotMet, None, unmet)
             ELSE Res([set EXCEPT ![i].status = Claimed], Ok, None, <<>>)

claim(fs, feature_id, agent_id) ==
    LET i == find(fs, feature_id) IN
    IF i = 0 THEN Res(fs, NotFound, None, <<>>)
    ELSE IF fs[i].claimed_by # None
    THEN Res(fs, AlreadyClaimed, fs[i].claimed_by, <<>>)
    ELSE LET unmet == SelectSeq(fs[i].depends_on,
                                LAMBDA dep : ~contains(done_ids(fs), dep))
         IN  IF unmet # <<>> THEN Res(fs, DepsNotMet, None, unmet)
             ELSE Res([fs EXCEPT ![i].status = Claimed,
                                 ![i].claimed_by = agent_id],
                      Ok, None, <<>>)

\* mark_done that also releases the claim
mark_done_clears_claim(fs, feature_id) ==
    LET i == find(fs, feature_id) IN
    IF i = 0 THEN Res(fs, NotFound, None, <<>>)
    ELSE Res([fs EXCEPT ![i].status = Done, ![i].claimed_by = None],
             Ok, None, <<>>)

\* mark_done that refuses a feature whose dependencies are not all done
mark_done_checks_deps(fs, feature_id) ==
    LET i == find(fs, feature_id) IN
    IF i = 0 THEN Res(fs, NotFound, None, <<>>)
    ELSE LET unmet == SelectSeq(fs[i].depends_on,
                                LAMBDA dep : ~contains(done_ids(fs), dep))
         IN  IF unmet # <<>> THEN Res(fs, DepsNotMet, None, unmet)
             ELSE Res([fs EXCEPT ![i].status = Done], Ok, None, <<>>)

mark_done(fs, feature_id) ==
    LET i == find(fs, feature_id) IN
    IF i = 0 THEN Res(fs, NotFound, None, <<>>)
    ELSE Res([fs EXCEPT ![i].status = Done], Ok, None, <<>>)

mark_blocked(fs, feature_id, reason) ==
    LET i == find(fs, feature_id) IN
    IF i = 0 THEN Res(fs, NotFound, None, <<>>)
    ELSE Res([fs EXCEPT ![i].status = Blocked, ![i].blocked_reason = reason],
             Ok, None, <<>>)

\* reopen that forgets to clear claimed_by
reopen_keeps_claimant(fs, feature_id) ==
    LET i == find(fs, feature_id) IN
    IF i = 0 THEN Res(fs, NotFound, None, <<>>)
    ELSE Res([fs EXCEPT ![i].status = Pending, ![i].blocked_reason = None],
             Ok, None, <<>>)

\* reopen that forgets to clear blocked_reason
reopen_keeps_reason(fs, feature_id) ==
    LET i == find(fs, feature_id) IN
    IF i = 0 THEN Res(fs, NotFound, None, <<>>)
    ELSE Res([fs EXCEPT ![i].status = Pending, ![i].claimed_by = None],
             Ok, None, <<>>)

reopen(fs, feature_id) ==
    LET i == find(fs, feature_id) IN
    IF i = 0 THEN Res(fs, NotFound, None, <<>>)
    ELSE Res([fs EXCEPT ![i].status = Pending, ![i].claimed_by = None,
                        ![i].blocked_reason = None],
             Ok, None, <<>>)

---------------------------------------------------------------------------
(* The lists a run starts from *)

RECURSIVE AscSeq(_)
AscSeq(S) ==
    IF S = {} THEN <<>>
    ELSE LET m == CHOOSE x \in S : \A y \in S : x <= y
         IN  <<m>> \o AscSeq(S \ {m})

\* depends_on of the i-th of n features: earlier features and an id that
\* names no feature
DepChoices(n, i) == {AscSeq(S) : S \in SUBSET ((1..(i - 1)) \cup {n + 1})}

\* a freshly planned list: everything Pending, nothing claimed or blocked
PlannedLists(n) ==
    {[i \in 1..n |-> Feature(i, Implement, d[i], default_priority, Pending, None, None)] :
        d \in {dd \in [1..n -> UNION {DepChoices(n, i) : i \in 1..n}] :
                    \A i \in 1..n : dd[i] \in DepChoices(n, i)}}

NoCall == [op |-> "none", id |-> 0, agent |-> None, n |-> 0,
           result |-> Ok, who |-> None, unmet |-> <<>>, out |-> <<>>]

Call(op, id, agent, r) ==
    [op |-> op, id |-> id, agent |-> agent, n |-> 0,
     result |-> r.result, who |-> r.who, unmet |-> r.unmet, out |-> <<>>]

RaceIdle ==
    /\ store = <<>>
    /\ pc = <<>>
    /\ snap = <<>>
    /\ pick = <<>>
    /\ next_agent_id = <<>>
    /\ handed = <<>>

\* no headless loop is running
RunIdle ==
    /\ config = <<>>
    /\ rpc = "off"
    /\ session = 0
    /\ stop = FALSE
    /\ outcome = <<>>
    /\ entries = <<>>
    /\ workers = <<>>
    /\ idx = 0
    /\ main = <<>>
    /\ report = {}

\* no interactive run: run_tui is not running
TuiIdle ==
    /\ panes = <<>>
    /\ active_pane = 0
    /\ command_mode = FALSE
    /\ tpc = "off"
    /\ scan = 0
    /\ key = <<>>

\* no frame is laid out
GridIdle ==
    /\ area = <<>>
    /\ nr_panes = 0
    /\ rects = <<>>

\* no pane's threads are running
PtyIdle ==
    /\ child = "none"
    /\ watcher = "off"
    /\ reader = "off"
    /\ exited = FALSE
    /\ parser = <<>>
    /\ last_size = <<>>
    /\ output = 0
    /\ chan = <<>>
    /\ sent = <<>>
    /\ writer = <<>>
    /\ pty_in = <<>>
    /\ winsize = <<>>
    /\ resized = <<>>
    /\ master_fd = -1
    /\ hups = 0
    /\ closes = 0
    /\ dropped = FALSE
    /\ actor = "none"

\* no background orchestration is running
OrchIdle ==
    /\ last_done_count = 0
    /\ opc = "off"
    /\ poll = <<>>
    /\ fresh = {}

UiIdle == TuiIdle /\ GridIdle /\ PtyIdle /\ OrchIdle

---------------------------------------------------------------------------
(* Spec: one caller applies claim, mark_done, mark_blocked and reopen *)

Init ==
    /\ features \in PlannedLists(NumTasks)
    /\ ret = NoCall
    /\ RaceIdle
    /\ RunIdle
    /\ UiIdle

Claim ==
    \E id \in 1..(NumTasks + 1), a \in Agents :
        LET r == claim(features, id, a) IN
        /\ features' = r.list
        /\ ret' = Call("claim", id, a, r)
        /\ UNCHANGED <<raceVars, runVars, uiVars>>

MarkDone ==
    \E id \in 1..(NumTasks + 1) :
        LET r == mark_done(features, id) IN
        /\ features' = r.list
        /\ ret' = Call("mark_done", id, None, r)
        /\ UNCHANGED <<raceVars, runVars, uiVars>>

MarkBlocked ==
    \E id \in 1..(NumTasks + 1), why \in Reasons :
        LET r == mark_blocked(features, id, why) IN
        /\ features' = r.list
        /\ ret' = Call("mark_blocked", id, None, r)
        /\ UNCHANGED <<raceVars, runVars, uiVars>>

Reopen ==
    \E id \in 1..(NumTasks + 1) :
        LET r == reopen(features, id) IN
        /\ features' = r.list
        /\ ret' = Call("reopen", id, None, r)
        /\ UNCHANGED <<raceVars, runVars, uiVars>>

Next == Claim \/ MarkDone \/ MarkBlocked \/ Reopen

Spec == Init /\ [][Next]_vars

---------------------------------------------------------------------------
(* SpecLoaded: the same caller, starting from any features.json the        *)
(* program can load in which no Pending feature has a claimant             *)

\* depends_on of the i-th of n loaded features: nothing, or the feature
\* before it (an id that is no feature for the first)
DepChoicesL(n, i) == {<<>>, <<IF i = 1 THEN n + 1 ELSE i - 1>>}

\* the lists FeatureList::load may return: any status, claimant and blocked
\* reason, but no Pending feature with a claimant
LoadedLists(n) ==
    LET all == {[i \in 1..n |-> Feature(i, Implement, d[i], default_priority,
                                        st[i], by[i], why[i])] :
                    d \in {dd \in [1..n -> UNION {DepChoicesL(n, i) : i \in 1..n}] :
                                \A i \in 1..n : dd[i] \in DepChoicesL(n, i)},
                    st \in [1..n -> FeatureStatus],
                    by \in [1..n -> {None, AgentNames[1]}],
                    why \in [1..n -> {None} \cup Reasons]}
    IN  {fs \in all : \A i \in 1..n : fs[i].status = Pending =>
                                        fs[i].claimed_by = None}

InitLoaded ==
    /\ features \in LoadedLists(NumTasks)
    /\ ret = NoCall
    /\ RaceIdle
    /\ RunIdle
    /\ UiIdle

SpecLoaded == InitLoaded /\ [][Next]_vars

---------------------------------------------------------------------------
(* SpecQuery: the queries applied to task lists in any combination of     *)
(* statuses (the store is a file the agents rewrite between two queries)  *)

\* depends_on of the i-th of n features in a queried list: the first may
\* name an id that is no feature, the others any of the two features before
DepChoicesQ(n, i) ==
    IF i = 1 THEN {<<>>, <<n + 1>>}
    ELSE {AscSeq(S) : S \in SUBSET ({i - 2, i - 1} \cap (1..n))}

QueryLists(n) ==
    {[i \in 1..n |->
        Feature(i, Implement, d[i], pr[i], st[i],
                IF st[i] = Claimed THEN AgentNames[1] ELSE None,
                IF st[i] = Blocked THEN CHOOSE w \in Reasons : TRUE ELSE None)] :
        d \in {dd \in [1..n -> UNION {DepChoicesQ(n, i) : i \in 1..n}] :
                    \A i \in 1..n : dd[i] \in DepChoicesQ(n, i)},
        pr \in [1..n -> Priorities],
        st \in [1..n -> FeatureStatus]}

Answer(op, id, n, out) ==
    [op |-> op, id |-> id, agent |-> None, n |-> n,
     result |-> Ok, who |-> None, unmet |-> <<>>, out |-> out]

\* an Option<&Feature> as the list of the positions returned
Opt(i) == IF i = 0 THEN <<>> ELSE <<i>>

InitQuery ==
    /\ features \in QueryLists(NumQueryTasks)
    /\ ret = NoCall
    /\ RaceIdle
    /\ RunIdle
    /\ UiIdle

NextClaimable ==
    /\ ret = NoCall
    /\ ret' = Answer("next_claimable", 0, 0, Opt(next_claimable(features)))
    /\ UNCHANGED <<features, raceVars, runVars, uiVars>>

NextNClaimable ==
    /\ ret = NoCall
    /\ \E n \in 0..NumQueryTasks :
          ret' = Answer("next_n_claimable", 0, n, next_n_claimable(features, n))
    /\ UNCHANGED <<features, raceVars, runVars, uiVars>>

NextAfter ==
    /\ ret = NoCall
    /\ \E c \in 1..(NumQueryTasks + 1) :
          ret' = Answer("next_after", c, 0, Opt(next_after(features, c)))
    /\ UNCHANGED <<features, raceVars, runVars, uiVars>>

NextQuery == NextClaimable \/ NextNClaimable \/ NextAfter

SpecQuery == InitQuery /\ [][NextQuery]_vars

---------------------------------------------------------------------------
(* SpecTrip: a caller that claims a feature, marks it done, reopens it    *)
(* and reopens it once more (tests::reopen_resets_status), from any list  *)

InitTrip ==
    /\ features \in QueryLists(NumTasks)
    /\ ret = NoCall
    /\ RaceIdle
    /\ RunIdle
    /\ UiIdle

TripClaim ==
    /\ ret = NoCall
    /\ \E id \in 1..(NumTasks + 1), a \in Agents :
          LET r == claim(features, id, a) IN
          /\ features' = r.list
          /\ ret' = Call("claim", id, a, r)
    /\ UNCHANGED <<raceVars, runVars, uiVars>>

\* list.claim("f001", "agent-1").unwrap() lets the caller go on only on Ok
TripMarkDone ==
    /\ ret.op = "claim"
    /\ ret.result = Ok
    /\ LET r == mark_done(features, ret.id) IN
          /\ features' = r.list
          /\ ret' = Call("mark_done", ret.id, None, r)
    /\ UNCHANGED <<raceVars, runVars, uiVars>>

TripReopen ==
    /\ ret.op = "mark_done"
    /\ LET r == reopen(features, ret.id) IN
          /\ features' = r.list
          /\ ret' = Call("reopen", ret.id, None, r)
    /\ UNCHANGED <<raceVars, runVars, uiVars>>

TripReopenAgain ==
    /\ ret.op = "reopen"
    /\ LET r == reopen(features, ret.id) IN
          /\ features' = r.list
          /\ ret' = Call("reopen_again", ret.id, None, r)
    /\ UNCHANGED <<raceVars, runVars, uiVars>>

NextTrip == TripClaim \/ TripMarkDone \/ TripReopen \/ TripReopenAgain

SpecTrip == InitTrip /\ [][NextTrip]_vars

---------------------------------------------------------------------------
(* SpecMilestone: milestone_claimable applied to lists of Implement and   *)
(* Review features whose depends_on may form cycles and name no feature   *)

\* depends_on of the i-th of n features: nothing, the next feature, or the
\* feature before (the last one for the first) and the next; the id n + 1
\* names no feature
DepChoicesM(n, i) ==
    {<<>>, <<i + 1>>, <<(IF i = 1 THEN n ELSE i - 1), i + 1>>}

MilestoneList(n, ty, d, pr, st) ==
    [i \in 1..n |->
        Feature(i, ty[i], d[i], pr[i], st[i],
                IF st[i] = Claimed THEN AgentNames[1] ELSE None, None)]

\* the orders a HashSet holding the ids S can be iterated in
IterOrders(S) ==
    {o \in [1..Cardinality(S) -> S] : \A x \in S : \E k \in DOMAIN o : o[k] = x}

\* one depends_on for each of n features
DepsM(n) ==
    {d \in [1..n -> UNION {DepChoicesM(n, i) : i \in 1..n}] :
        \A i \in 1..n : d[i] \in DepChoicesM(n, i)}

InitMilestone ==
    /\ \E d \in DepsM(NumMilestoneTasks) :
          \E ty \in [1..NumMilestoneTasks -> {Implement, Review}],
             pr \in [1..NumMilestoneTasks -> Priorities],
             st \in [1..NumMilestoneTasks -> {Pending, Claimed, Done}] :
             features = MilestoneList(NumMilestoneTasks, ty, d, pr, st)
    /\ ret = NoCall
    /\ RaceIdle
    /\ RunIdle
    /\ UiIdle

MilestoneClaimable ==
    /\ ret = NoCall
    /\ \E o \in IterOrders(SeqToSet(claimable_ids(features))) :
          ret' = Answer("milestone_claimable", 0, 0,
                        milestone_claimable(features, o))
    /\ UNCHANGED <<features, raceVars, runVars, uiVars>>

NextMilestone == MilestoneClaimable

SpecMilestone == InitMilestone /\ [][NextMilestone]_vars

---------------------------------------------------------------------------
(* SpecRace: two runner processes, each running open_next_feature_pane    *)
(* (load, select, claim, save, spawn) against the same features.json.     *)
(* A failed load or save is not modelled.                                 *)

Procs == {"p1", "p2"}

InitRace ==
    /\ features = <<>>
    /\ ret = NoCall
    /\ store \in PlannedLists(NumRaceTasks)
    /\ pc = [p \in Procs |-> "idle"]
    /\ snap = [p \in Procs |-> <<>>]
    /\ pick = [p \in Procs |-> 0]
    /\ next_agent_id = [p \in Procs |-> 0]
    /\ handed = [p \in Procs |-> <<>>]
    /\ RunIdle
    /\ UiIdle

\* FeatureList::load
Load(p) ==
    /\ pc[p] = "idle"
    /\ snap' = [snap EXCEPT ![p] = store]
    /\ pc' = [pc EXCEPT ![p] = "loaded"]
    /\ UNCHANGED <<listVars, runVars, uiVars, store, pick, next_agent_id, handed>>

\* next_after(cid) or next_claimable() found a feature
Select(p) ==
    /\ pc[p] = "loaded"
    /\ next_agent_id[p] < MaxAgentId
    /\ \E nxt \in {next_claimable(snap[p])}
                    \cup {next_after(snap[p], cid) : cid \in 1..NumRaceTasks} :
          /\ nxt # 0
          /\ pick' = [pick EXCEPT ![p] = snap[p][nxt].id]
    /\ next_agent_id' = [next_agent_id EXCEPT ![p] = @ + 1]
    /\ pc' = [pc EXCEPT ![p] = "selected"]
    /\ UNCHANGED <<listVars, runVars, uiVars, store, snap, handed>>

\* ... or none: the function returns None
SelectNone(p) ==
    /\ pc[p] = "loaded"
    /\ next_claimable(snap[p]) = 0
    /\ pc' = [pc EXCEPT ![p] = "idle"]
    /\ UNCHANGED <<listVars, runVars, uiVars, store, snap, pick, next_agent_id, handed>>

\* let _ = features.claim(&feature_id, &agent_id)
ClaimStep(p) ==
    /\ pc[p] = "selected"
    /\ snap' = [snap EXCEPT
                  ![p] = claim(snap[p], pick[p], AgentNames[next_agent_id[p]]).list]
    /\ pc' = [pc EXCEPT ![p] = "claimed"]
    /\ UNCHANGED <<listVars, runVars, uiVars, store, pick, next_agent_id, handed>>

\* let _ = features.save(..)
Save(p) ==
    /\ pc[p] = "claimed"
    /\ store' = snap[p]
    /\ pc' = [pc EXCEPT ![p] = "saved"]
    /\ UNCHANGED <<listVars, runVars, uiVars, snap, pick, next_agent_id, handed>>

\* spawn_pty_agent returned Ok(pane): the pane is pushed
SpawnOk(p) ==
    /\ pc[p] = "saved"
    /\ handed' = [handed EXCEPT
                    ![p] = Append(@, <<pick[p], AgentNames[next_agent_id[p]]>>)]
    /\ pc' = [pc EXCEPT ![p] = "idle"]
    /\ UNCHANGED <<listVars, runVars, uiVars, store, snap, pick, next_agent_id>>

\* spawn_pty_agent returned Err: no pane
SpawnErr(p) ==
    /\ pc[p] = "saved"
    /\ pc' = [pc EXCEPT ![p] = "idle"]
    /\ UNCHANGED <<listVars, runVars, uiVars, store, snap, pick, next_agent_id, handed>>

NextRace ==
    \E p \in Procs :
        \/ Load(p)
        \/ Select(p)
        \/ SelectNone(p)
        \/ ClaimStep(p)
        \/ Save(p)
        \/ SpawnOk(p)
        \/ SpawnErr(p)

SpecRace == InitRace /\ [][NextRace]_vars

\* the feature ids of the panes a process opened
PaneFeatures(p) == {handed[p][k][1] : k \in 1..Len(handed[p])}

\* C2: two runner processes running load, select, claim, save against the
\* same store, interleaved in any way, never hand one task to two workers.
C2_NoDoubleClaim ==
    /\ PaneFeatures("p1") \cap PaneFeatures("p2") = {}
    /\ \A p \in Procs : \A j, k \in 1..Len(handed[p]) :
            j # k => handed[p][j][1] # handed[p][k][1]

---------------------------------------------------------------------------
(* SpecRun: the headless loops run_single_agent and run_multi_agent        *)
(* (src/src/runner.rs).  FeatureList::load is taken to succeed; the        *)
(* context refresh, the log files and the verify report leave no trace in  *)
(* the task store and are left out.                                        *)

AllDone == "AllDone"
MaxSessions == "MaxSessions"
Stopped == "Stopped"
SpawnError == "SpawnError"

Running == [kind |-> "none", sessions |-> 0, remaining |-> 0]
Outcome(kind, sessions, remaining) ==
    [kind |-> kind, sessions |-> sessions, remaining |-> remaining]

\* a thread or child the loop started: "thread" until spawn_agent returns,
\* then "running" or "failed", and "exited" once the child has been waited for
Worker(agent_id, feature_id, round, state) ==
    [agent |-> agent_id, feature |-> feature_id, round |-> round,
     state |-> state, conflict |-> FALSE, worktree |-> "none"]

stop_requested(flag) == flag

\* a loop that leaves the sentinel in place
clear_stop_leaves_flag(flag) == flag

clear_stop(flag) == FALSE

all_done(fs) == \A i \in 1..Len(fs) : fs[i].status = Done

\* a budget check that lets one round too many through
budget_exhausted_off_by_one(n, max_sessions) == n > max_sessions

budget_exhausted(n, max_sessions) == n >= max_sessions

\* a count that leaves the claimed and blocked features out
remaining_counts_pending(fs) ==
    Cardinality({i \in 1..Len(fs) : fs[i].status = Pending})

remaining(fs) == Cardinality({i \in 1..Len(fs) : fs[i].status # Done})

\* the feature ids the round hands out
select_single(fs) ==
    LET i == next_claimable(fs) IN IF i = 0 THEN <<>> ELSE <<fs[i].id>>

select_multi(fs, num_agents) ==
    LET c == next_n_claimable(fs, num_agents) IN [k \in 1..Len(c) |-> fs[c[k]].id]

\* what an executor agent following the protocol leaves of its feature in
\* features.json: nothing, the claim, the claim and status done, or the
\* claim and status blocked with a reason
Edits == {"none", Claimed, Done, Blocked}

agent_edit(fs, feature_id, agent_id, e) ==
    LET c == claim(fs, feature_id, agent_id).list IN
    CASE e = "none"  -> fs
      [] e = Claimed -> c
      [] e = Done    -> mark_done(c, feature_id).list
      [] e = Blocked -> mark_blocked(c, feature_id, CHOOSE w \in Reasons : TRUE).list

\* the handles have all been joined
no_join(ws) == TRUE

all_joined(ws) == \A w \in 1..Len(ws) : ws[w].state \in {"exited", "failed"}

\* git merge <branch> --no-edit: refused while an earlier merge is unresolved
git_merge(m, branch, conflicts) ==
    IF m.conflicted THEN [main |-> m, ok |-> FALSE]
    ELSE IF conflicts THEN [main |-> [m EXCEPT !.conflicted = TRUE], ok |-> FALSE]
    ELSE [main |-> [m EXCEPT !.merged = Append(@, branch)], ok |-> TRUE]

git_merge_abort(m) == [m EXCEPT !.conflicted = FALSE]

\* a merge_worktree that leaves a conflicting merge unresolved
merge_worktree_no_abort(m, branch, conflicts) == git_merge(m, branch, conflicts)

merge_worktree(m, branch, conflicts) ==
    LET r == git_merge(m, branch, conflicts) IN
    IF r.ok THEN r ELSE [main |-> git_merge_abort(r.main), ok |-> FALSE]

\* the features verify_all runs a script for
verified(fs) ==
    {fs[i].id : i \in {j \in 1..Len(fs) : fs[j].status \in {Done, Claimed}}}

\* a loop over the results that stops at the first one it reopens
RECURSIVE reopen_failed_first_only(_, _, _)
reopen_failed_first_only(fs, failed, i) ==
    IF i > Len(fs) THEN fs
    ELSE IF fs[i].id \in failed THEN reopen(fs, fs[i].id).list
    ELSE reopen_failed_first_only(fs, failed, i + 1)

\* reopen applied to every failed result, in the order of the list
RECURSIVE reopen_failed(_, _, _)
reopen_failed(fs, failed, i) ==
    IF i > Len(fs) THEN fs
    ELSE reopen_failed(IF fs[i].id \in failed THEN reopen(fs, fs[i].id).list ELSE fs,
                       failed, i + 1)

\* a clean-up that leaves the worktree of a conflicting merge in place
remove_merged_only(ws, fails) ==
    [w \in 1..Len(ws) |->
        IF ws[w].conflict THEN ws[w]
        ELSE [ws[w] EXCEPT !.worktree = IF w \in fails THEN "remove failed"
                                                      ELSE "removed"]]

\* git::remove_worktree tried on every worktree_dirs entry; fails holds the
\* handles for which it returns Err
remove_worktrees(ws, fails) ==
    [w \in 1..Len(ws) |->
        [ws[w] EXCEPT !.worktree = IF w \in fails THEN "remove failed"
                                                  ELSE "removed"]]

\* depends_on of the i-th of n features of a run: nothing or the feature
\* before; for the first, nothing or an id that names no feature
DepChoicesR(n, i) == {<<>>, <<IF i = 1 THEN n + 1 ELSE i - 1>>}

RunLists(n) ==
    {[i \in 1..n |-> Feature(i, Implement, d[i], default_priority, Pending, None, None)] :
        d \in {dd \in [1..n -> UNION {DepChoicesR(n, i) : i \in 1..n}] :
                    \A i \in 1..n : dd[i] \in DepChoicesR(n, i)}}

\* forge run dispatches to run_multi_agent when agents > 1
Configs ==
    {[mode |-> "single", max_sessions |-> m, num_agents |-> 1, git_repo |-> TRUE] :
        m \in 0..MaxSessionsBound}
    \cup
    {[mode |-> "multi", max_sessions |-> m, num_agents |-> n, git_repo |-> g] :
        m \in 0..MaxSessionsBound, n \in 2..NumAgents, g \in BOOLEAN}

InitRun ==
    /\ features = <<>>
    /\ ret = NoCall
    /\ store \in RunLists(NumRunTasks)
    /\ pc = <<>>
    /\ snap = <<>>
    /\ pick = <<>>
    /\ next_agent_id = <<>>
    /\ handed = <<>>
    /\ config \in Configs
    /\ rpc = "start"
    /\ session = 0
    /\ stop \in BOOLEAN
    /\ outcome = Running
    /\ entries = <<>>
    /\ workers = <<>>
    /\ idx = 0
    /\ main = [merged |-> <<>>, conflicted |-> FALSE]
    /\ report = {}
    /\ UiIdle

paneVars == <<features, ret, pc, snap, pick, next_agent_id, handed>>

\* forge stop
RequestStop ==
    /\ outcome.kind = "none"
    /\ ~stop
    /\ stop' = TRUE
    /\ UNCHANGED <<paneVars, uiVars, store, config, rpc, session, outcome, entries,
                   workers, idx, main, report>>

\* run_multi_agent refuses a project_dir that is no git repository
RunStart ==
    /\ rpc = "start"
    /\ IF config.mode = "multi" /\ ~config.git_repo
       THEN outcome' = Outcome(SpawnError, 0, 0) /\ rpc' = "done"
       ELSE outcome' = outcome /\ rpc' = "check_stop"
    /\ UNCHANGED <<paneVars, uiVars, store, config, session, stop, entries, workers,
                   idx, main, report>>

CheckStop ==
    /\ rpc = "check_stop"
    /\ IF stop_requested(stop)
       THEN /\ stop' = clear_stop(stop)
            /\ outcome' = Outcome(Stopped, session, 0)
            /\ rpc' = "done"
       ELSE /\ rpc' = "load"
            /\ UNCHANGED <<stop, outcome>>
    /\ UNCHANGED <<paneVars, uiVars, store, config, session, entries, workers, idx,
                   main, report>>

RunAllDone ==
    /\ rpc = "load"
    /\ all_done(store)
    /\ outcome' = Outcome(AllDone, session, 0)
    /\ rpc' = "done"
    /\ UNCHANGED <<paneVars, uiVars, store, config, session, stop, entries, workers,
                   idx, main, report>>

RunMaxSessions ==
    /\ rpc = "load"
    /\ ~all_done(store)
    /\ budget_exhausted(session, config.max_sessions)
    /\ outcome' = Outcome(MaxSessions, session, remaining(store))
    /\ rpc' = "done"
    /\ UNCHANGED <<paneVars, uiVars, store, config, session, stop, entries, workers,
                   idx, main, report>>

selected ==
    IF config.mode = "single" THEN select_single(store)
    ELSE select_multi(store, config.num_agents)

\* "No claimable features (all blocked or claimed)"
RunNoneClaimable ==
    /\ rpc = "load"
    /\ ~all_done(store)
    /\ ~budget_exhausted(session, config.max_sessions)
    /\ selected = <<>>
    /\ outcome' = Outcome(MaxSessions, session, remaining(store))
    /\ rpc' = "done"
    /\ UNCHANGED <<paneVars, uiVars, store, config, session, stop, entries, workers,
                   idx, main, report>>

RunSelect ==
    /\ rpc = "load"
    /\ ~all_done(store)
    /\ ~budget_exhausted(session, config.max_sessions)
    /\ selected # <<>>
    /\ entries' = selected
    /\ workers' = <<>>
    /\ idx' = 1
    /\ main' = [merged |-> <<>>, conflicted |-> FALSE]
    /\ report' = {}
    /\ rpc' = IF config.mode = "single" THEN "spawn" ELSE "create"
    /\ UNCHANGED <<paneVars, uiVars, store, config, session, stop, outcome>>

(* run_single_agent: one executor, named "agent-1", in project_dir *)

SingleSpawnOk ==
    /\ rpc = "spawn"
    /\ workers' = <<Worker(AgentNames[1], entries[1], session, "running")>>
    /\ rpc' = "wait"
    /\ UNCHANGED <<paneVars, uiVars, store, config, session, stop, outcome, entries,
                   idx, main, report>>

SingleSpawnErr ==
    /\ rpc = "spawn"
    /\ workers' = <<Worker(AgentNames[1], entries[1], session, "failed")>>
    /\ report' = report \cup {<<"spawn failed", AgentNames[1]>>}
    /\ outcome' = Outcome(SpawnError, 0, 0)
    /\ rpc' = "done"
    /\ UNCHANGED <<paneVars, uiVars, store, config, session, stop, entries, idx, main>>

\* the agent works on features.json of project_dir itself; child.wait()
\* returns once it has exited
SingleAgentExit ==
    /\ rpc = "wait"
    /\ \E e \in Edits :
          store' = agent_edit(store, workers[1].feature, workers[1].agent, e)
    /\ workers' = [workers EXCEPT ![1].state = "exited"]
    /\ rpc' = "compliance"
    /\ UNCHANGED <<paneVars, uiVars, config, session, stop, outcome, entries, idx,
                   main, report>>

(* run_multi_agent: one worktree, branch and thread for each entry *)

\* what follows the idx-th pass of the for loop over feature_entries
AfterCreate == IF idx = Len(entries) THEN "join" ELSE "create"

\* git::create_worktree fails: the entry gets no thread and no handle
CreateWorktreeErr ==
    /\ rpc = "create"
    /\ report' = report \cup {<<"worktree failed", AgentNames[idx]>>}
    /\ idx' = idx + 1
    /\ rpc' = AfterCreate
    /\ UNCHANGED <<paneVars, uiVars, store, config, session, stop, outcome, entries,
                   workers, main>>

\* thread::spawn, handles.push
SpawnThread ==
    /\ rpc = "create"
    /\ workers' = Append(workers,
            [Worker(AgentNames[idx], entries[idx], session, "thread")
                EXCEPT !.worktree = "created"])
    /\ idx' = idx + 1
    /\ rpc' = AfterCreate
    /\ UNCHANGED <<paneVars, uiVars, store, config, session, stop, outcome, entries,
                   main, report>>

\* inside the thread: spawn_agent returns Ok(child)
ThreadSpawnOk(w) ==
    /\ workers[w].state = "thread"
    /\ workers' = [workers EXCEPT ![w].state = "running"]
    /\ UNCHANGED <<paneVars, uiVars, store, config, rpc, session, stop, outcome,
                   entries, idx, main, report>>

\* inside the thread: spawn_agent returns Err, which the thread prints
ThreadSpawnErr(w) ==
    /\ workers[w].state = "thread"
    /\ workers' = [workers EXCEPT ![w].state = "failed"]
    /\ report' = report \cup {<<"spawn failed", workers[w].agent>>}
    /\ UNCHANGED <<paneVars, uiVars, store, config, rpc, session, stop, outcome,
                   entries, idx, main>>

\* the child exits and the thread's child.wait() returns; what the agent
\* committed stays on its branch until the merge
AgentExit(w) ==
    /\ workers[w].state = "running"
    /\ workers' = [workers EXCEPT ![w].state = "exited"]
    /\ UNCHANGED <<paneVars, uiVars, store, config, rpc, session, stop, outcome,
                   entries, idx, main, report>>

\* handle.join() for every handle
Join ==
    /\ rpc = "join"
    /\ all_joined(workers)
    /\ idx' = 1
    /\ rpc' = IF workers = <<>> THEN "cleanup" ELSE "merge"
    /\ UNCHANGED <<paneVars, uiVars, store, config, session, stop, outcome, entries,
                   workers, main, report>>

\* one pass of the for loop over worktree_dirs: merge_worktree of the
\* idx-th branch.  A merged branch brings its agent's edit of features.json
\* into project_dir; the branch of an agent that never started has none.
Merge ==
    /\ rpc = "merge"
    /\ \E conflicts \in BOOLEAN, e \in Edits :
          LET w == workers[idx]
              r == merge_worktree(main, w.agent, conflicts)
          IN  /\ w.state = "failed" => e = "none"
              /\ main' = r.main
              /\ workers' = [workers EXCEPT ![idx].conflict = conflicts]
              /\ IF r.ok
                 THEN /\ store' = agent_edit(store, w.feature, w.agent, e)
                      /\ report' = report
                 ELSE /\ store' = store
                      /\ report' = report \cup {<<"merge failed", w.agent>>}
    /\ idx' = idx + 1
    /\ rpc' = IF idx = Len(workers) THEN "cleanup" ELSE "merge"
    /\ UNCHANGED <<paneVars, uiVars, config, session, stop, outcome, entries>>

\* git::remove_worktree for every handle
Cleanup ==
    /\ rpc = "cleanup"
    /\ \E fails \in SUBSET (1..Len(workers)) :
          /\ workers' = remove_worktrees(workers, fails)
          /\ report' = report \cup {<<"remove failed", workers[w].agent>> : w \in fails}
    /\ rpc' = "compliance"
    /\ UNCHANGED <<paneVars, uiVars, store, config, session, stop, outcome, entries,
                   idx, main>>

(* the rest of a round, the same in both loops *)

\* a round that goes from the compliance check straight to the git sync
compliance_then_git_sync ==
    /\ rpc = "compliance"
    /\ rpc' = "git_sync"
    /\ UNCHANGED <<paneVars, uiVars, store, config, session, stop, outcome, entries,
                   workers, idx, main, report>>

\* check_protocol_compliance only prints warnings
Compliance ==
    /\ rpc = "compliance"
    /\ rpc' = "verify"
    /\ UNCHANGED <<paneVars, uiVars, store, config, session, stop, outcome, entries,
                   workers, idx, main, report>>

\* verify_all returns Ok(results): failed holds the features whose script
\* is missing or exits non-zero, each printed as FAIL and reopened
VerifyReopen ==
    /\ rpc = "verify"
    /\ \E failed \in SUBSET verified(store) :
          /\ store' = reopen_failed(store, failed, 1)
          /\ report' = report \cup {<<"verify failed", id>> : id \in failed}
    /\ rpc' = "git_sync"
    /\ UNCHANGED <<paneVars, uiVars, config, session, stop, outcome, entries, workers,
                   idx, main>>

\* verify_all returns Err (bash cannot be run): no result is reported and
\* nothing is reopened
VerifyErr ==
    /\ rpc = "verify"
    /\ report' = report \cup {<<"verify error", 0>>}
    /\ rpc' = "git_sync"
    /\ UNCHANGED <<paneVars, uiVars, store, config, session, stop, outcome, entries,
                   workers, idx, main>>

\* git::pull, whose failure is only a warning
GitSync ==
    /\ rpc = "git_sync"
    /\ rpc' = "review"
    /\ UNCHANGED <<paneVars, uiVars, store, config, session, stop, outcome, entries,
                   workers, idx, main, report>>

\* the orchestrating review, waited for when it starts and skipped when it
\* does not; then session += 1
OrchestratingReview ==
    /\ rpc = "review"
    /\ session' = session + 1
    /\ rpc' = "check_stop"
    /\ UNCHANGED <<paneVars, uiVars, store, config, stop, outcome, entries, workers,
                   idx, main, report>>

NextRun ==
    \/ RequestStop
    \/ RunStart
    \/ CheckStop
    \/ RunAllDone
    \/ RunMaxSessions
    \/ RunNoneClaimable
    \/ RunSelect
    \/ SingleSpawnOk
    \/ SingleSpawnErr
    \/ SingleAgentExit
    \/ CreateWorktreeErr
    \/ SpawnThread
    \/ \E w \in 1..Len(workers) : ThreadSpawnOk(w)
    \/ \E w \in 1..Len(workers) : ThreadSpawnErr(w)
    \/ \E w \in 1..Len(workers) : AgentExit(w)
    \/ Join
    \/ Merge
    \/ Cleanup
    \/ Compliance
    \/ VerifyReopen
    \/ VerifyErr
    \/ GitSync
    \/ OrchestratingReview

SpecRun == InitRun /\ [][NextRun]_vars

---------------------------------------------------------------------------
(* SpecTui: run_tui (src/src/tui.rs), the interactive run of one           *)
(* multiplexer.  The position of a pane in panes is index + 1 and          *)
(* active_pane = 0 is None.  The agent of a pane edits its own feature in  *)
(* features.json and exits, in one step.  A failed load or save and a      *)
(* failed terminal.draw or terminal.size are not modelled; drawing and the *)
(* status bar leave no trace in the panes or in the store and are left     *)
(* out.                                                                    *)

Pane(feature_id, agent_id) ==
    [feature_id |-> feature_id, agent_id |-> agent_id, exited |-> FALSE]

is_alive(pane) == ~pane.exited

\* Vec::remove: the elements behind position k move up
remove(ps, k) ==
    [j \in 1..(Len(ps) - 1) |-> IF j < k THEN ps[j] ELSE ps[j + 1]]

\* the key events: the codes the command mode knows, a printable character,
\* the chord, and a function key that has no byte sequence
CtrlG == "ctrl-g"
Keys == {CtrlG, "1", "j", "k", "n", "x", "q", "a", "f1"}
NoKey == [read |-> FALSE, chord |-> FALSE, to |-> 0]
KeyRead(code, to) == [read |-> TRUE, chord |-> code = CtrlG, to |-> to]

\* a test for the chord that never recognises it
is_ctrl_g_never(code) == FALSE

is_ctrl_g(code) == code = CtrlG

\* handle_pane_key_event: TRUE when bytes go to the pane's sender
handle_pane_key_event(code) == code # "f1"

\* open_next_feature_pane that spawns without saving the claim
open_without_save(fs, ps, active, agent_no, completed_id, spawn_ok) ==
    LET nxt == IF completed_id # 0 THEN next_after(fs, completed_id)
               ELSE next_claimable(fs)
    IN  IF nxt = 0
        THEN [store |-> fs, panes |-> ps, active_pane |-> active,
              next_agent_id |-> agent_no, out |-> 0]
        ELSE IF spawn_ok
             THEN [store |-> fs,
                   panes |-> Append(ps, Pane(fs[nxt].id, AgentNames[agent_no + 1])),
                   active_pane |-> Len(ps) + 1,
                   next_agent_id |-> agent_no + 1, out |-> fs[nxt].id]
             ELSE [store |-> fs, panes |-> ps, active_pane |-> active,
                   next_agent_id |-> agent_no + 1, out |-> 0]

\* open_next_feature_pane: load, select, count the agent, claim and save
\* (both results dropped), spawn; out is the feature id returned, 0 for None
open_next_feature_pane(fs, ps, active, agent_no, completed_id, spawn_ok) ==
    LET nxt == IF completed_id # 0 THEN next_after(fs, completed_id)
               ELSE next_claimable(fs)
    IN  IF nxt = 0
        THEN [store |-> fs, panes |-> ps, active_pane |-> active,
              next_agent_id |-> agent_no, out |-> 0]
        ELSE LET feature_id == fs[nxt].id
                 agent_id   == AgentNames[agent_no + 1]
                 saved      == claim(fs, feature_id, agent_id).list
             IN  IF spawn_ok
                 THEN [store |-> saved,
                       panes |-> Append(ps, Pane(feature_id, agent_id)),
                       active_pane |-> Len(ps) + 1,
                       next_agent_id |-> agent_no + 1, out |-> feature_id]
                 ELSE [store |-> saved, panes |-> ps, active_pane |-> active,
                       next_agent_id |-> agent_no + 1, out |-> 0]

\* status_counts
status_counts(fs) ==
    [pending |-> Cardinality({i \in 1..Len(fs) : fs[i].status = Pending}),
     claimed |-> Cardinality({i \in 1..Len(fs) : fs[i].status = Claimed}),
     done |-> Cardinality({i \in 1..Len(fs) : fs[i].status = Done})]

\* an exit test that looks at the pending count only
no_features_left_pending_only(fs) == status_counts(fs).pending = 0

\* status_counts.pending == 0 && status_counts.claimed == 0
no_features_left(fs) ==
    status_counts(fs).pending = 0 /\ status_counts(fs).claimed = 0

\* depends_on of the i-th of n features of an interactive run: nothing or
\* the first feature; for the first, nothing or an id that names no feature
DepChoicesT(n, i) == {<<>>, <<IF i = 1 THEN n + 1 ELSE 1>>}

\* the lists an interactive run starts from: planned lists, the last
\* feature of either priority
TuiLists(n) ==
    {[i \in 1..n |-> Feature(i, Implement, d[i],
                             IF i = n THEN pr ELSE default_priority,
                             Pending, None, None)] :
        d \in {dd \in [1..n -> UNION {DepChoicesT(n, i) : i \in 1..n}] :
                    \A i \in 1..n : dd[i] \in DepChoicesT(n, i)},
        pr \in Priorities}

InitTui ==
    /\ features = <<>>
    /\ ret = NoCall
    /\ store \in TuiLists(NumTuiTasks)
    /\ pc = <<>>
    /\ snap = <<>>
    /\ pick = <<>>
    /\ next_agent_id = 0
    /\ handed = <<>>
    /\ RunIdle
    /\ OrchIdle
    /\ panes = <<>>
    /\ active_pane = 0
    /\ command_mode = FALSE
    /\ tpc = "start"
    /\ scan = 0
    /\ key = NoKey
    /\ GridIdle
    /\ PtyIdle

tuiFrame == <<features, ret, pc, snap, pick, handed, runVars, gridVars, ptyVars,
              orchVars>>

\* the first pane, and the return when there is none
OpenFirst ==
    /\ tpc = "start"
    /\ \E spawn_ok \in BOOLEAN :
          LET r == open_next_feature_pane(store, panes, active_pane,
                                          next_agent_id, 0, spawn_ok)
          IN  /\ store' = r.store
              /\ panes' = r.panes
              /\ active_pane' = r.active_pane
              /\ next_agent_id' = r.next_agent_id
              /\ tpc' = IF r.panes = <<>> THEN "nothing_to_do" ELSE "events"
    /\ UNCHANGED <<tuiFrame, command_mode, scan, key>>

\* event::poll timed out, or the event was not a key
NoEvent ==
    /\ tpc = "events"
    /\ tpc' = "replace"
    /\ scan' = 1
    /\ key' = NoKey
    /\ UNCHANGED <<tuiFrame, store, next_agent_id, panes, active_pane, command_mode>>

\* Event::Key(key) in command mode
CommandKey(code) ==
    /\ tpc = "events"
    /\ command_mode
    /\ command_mode' = FALSE
    /\ key' = KeyRead(code, 0)
    /\ scan' = 1
    /\ CASE code = "1" ->
              /\ active_pane' = IF 1 <= Len(panes) THEN 1 ELSE active_pane
              /\ tpc' = "replace"
              /\ UNCHANGED <<store, next_agent_id, panes>>
         [] code = "j" ->
              /\ active_pane' = IF active_pane # 0 /\ active_pane < Len(panes)
                                THEN active_pane + 1 ELSE active_pane
              /\ tpc' = "replace"
              /\ UNCHANGED <<store, next_agent_id, panes>>
         [] code = "k" ->
              /\ active_pane' = IF active_pane > 1
                                THEN active_pane - 1 ELSE active_pane
              /\ tpc' = "replace"
              /\ UNCHANGED <<store, next_agent_id, panes>>
         [] code = "n" ->
              \E spawn_ok \in BOOLEAN :
                 LET r == open_next_feature_pane(store, panes, active_pane,
                                                 next_agent_id, 0, spawn_ok)
                 IN  /\ store' = r.store
                     /\ panes' = r.panes
                     /\ active_pane' = r.active_pane
                     /\ next_agent_id' = r.next_agent_id
                     /\ tpc' = "replace"
         [] code = "x" ->
              /\ IF active_pane # 0
                 THEN /\ panes' = remove(panes, active_pane)
                      /\ active_pane' =
                            IF Len(panes) = 1 THEN 0
                            ELSE ((active_pane - 1) % (Len(panes) - 1)) + 1
                 ELSE UNCHANGED <<panes, active_pane>>
              /\ tpc' = "replace"
              /\ UNCHANGED <<store, next_agent_id>>
         [] code = "q" ->
              /\ tpc' = "quit"
              /\ UNCHANGED <<store, next_agent_id, panes, active_pane>>
         [] OTHER ->
              /\ tpc' = "replace"
              /\ UNCHANGED <<store, next_agent_id, panes, active_pane>>
    /\ UNCHANGED tuiFrame

\* Event::Key(key) in normal mode: the chord, or a key for the active pane
NormalKey(code) ==
    /\ tpc = "events"
    /\ ~command_mode
    /\ IF is_ctrl_g(code)
       THEN /\ command_mode' = TRUE
            /\ key' = KeyRead(code, 0)
       ELSE /\ command_mode' = command_mode
            /\ key' = KeyRead(code, IF /\ active_pane # 0
                                      /\ active_pane <= Len(panes)
                                      /\ handle_pane_key_event(code)
                                   THEN active_pane ELSE 0)
    /\ tpc' = "replace"
    /\ scan' = 1
    /\ UNCHANGED <<tuiFrame, store, next_agent_id, panes, active_pane>>

\* the replacement loop at a pane that is alive
KeepPane ==
    /\ tpc = "replace"
    /\ scan <= Len(panes)
    /\ is_alive(panes[scan])
    /\ scan' = scan + 1
    /\ key' = NoKey
    /\ UNCHANGED <<tuiFrame, store, next_agent_id, panes, active_pane,
                   command_mode, tpc>>

\* the replacement loop at a pane that has exited
ReplacePane ==
    /\ tpc = "replace"
    /\ scan <= Len(panes)
    /\ ~is_alive(panes[scan])
    /\ \E spawn_ok \in BOOLEAN :
          LET completed_id == panes[scan].feature_id
              r == open_next_feature_pane(store, remove(panes, scan), active_pane,
                                          next_agent_id, completed_id, spawn_ok)
          IN  /\ store' = r.store
              /\ panes' = r.panes
              /\ next_agent_id' = r.next_agent_id
              /\ active_pane' =
                    IF r.out # 0 THEN r.active_pane
                    ELSE IF r.panes = <<>> THEN 0
                    ELSE IF r.active_pane > Len(r.panes) THEN Len(r.panes)
                    ELSE r.active_pane
    /\ key' = NoKey
    /\ UNCHANGED <<tuiFrame, command_mode, tpc, scan>>

\* the end of an iteration: the exit test
ExitCheck ==
    /\ tpc = "replace"
    /\ scan > Len(panes)
    /\ tpc' = IF panes = <<>> /\ no_features_left(store) THEN "finished"
              ELSE "events"
    /\ scan' = 0
    /\ key' = NoKey
    /\ UNCHANGED <<tuiFrame, store, next_agent_id, panes, active_pane, command_mode>>

\* the child of a pane exits, the outcome of its feature recorded in
\* features.json or not: PtyPane.exited becomes true.  The loop reads the
\* flag of a pane once in an iteration, so an exit while the replacement
\* loop runs is an exit before or after it.
PaneExit(k) ==
    /\ tpc = "events"
    /\ k <= Len(panes)
    /\ is_alive(panes[k])
    /\ panes' = [panes EXCEPT ![k].exited = TRUE]
    /\ \E e \in {"none", Done, Blocked} :
          store' = agent_edit(store, panes[k].feature_id, panes[k].agent_id, e)
    /\ UNCHANGED <<tuiFrame, next_agent_id, active_pane, command_mode,
                   tpc, scan, key>>

NextTui ==
    \/ OpenFirst
    \/ NoEvent
    \/ \E code \in Keys : CommandKey(code) \/ NormalKey(code)
    \/ KeepPane
    \/ ReplacePane
    \/ ExitCheck
    \/ \E k \in 1..NumTuiTasks : PaneExit(k)

SpecTui == InitTui /\ [][NextTui]_vars

\* run_tui while the user presses no key: every iteration of the loop polls
\* without an event
NextTuiQuiet ==
    \/ OpenFirst
    \/ NoEvent
    \/ KeepPane
    \/ ReplacePane
    \/ ExitCheck
    \/ \E k \in 1..NumTuiTasks : PaneExit(k)

\* the loop of run_tui is one thread that is never blocked for longer than
\* the poll timeout, so each of its steps is taken when it stays enabled;
\* the child of every pane exits, which the loop can observe only between
\* two iterations, hence the strong fairness
FairTui ==
    /\ WF_vars(OpenFirst)
    /\ WF_vars(NoEvent)
    /\ WF_vars(KeepPane)
    /\ WF_vars(ReplacePane)
    /\ WF_vars(ExitCheck)
    /\ \A k \in 1..NumTuiTasks : SF_vars(PaneExit(k))

SpecTuiQuiet == InitTui /\ [][NextTuiQuiet]_vars /\ FairTui

---------------------------------------------------------------------------
(* SpecGrid: grid_dims and grid_rect (src/src/tui.rs) applied to a pane    *)
(* area and a pane count.  A Rect is [x, y, width, height]; the fields are *)
(* u16 and no sum or product here leaves the area, so none wraps.          *)

Rect(x, y, w, h) == [x |-> x, y |-> y, width |-> w, height |-> h]

grid_dims(n) ==
    IF n <= 3 THEN [rows |-> n, cols |-> 1]
    ELSE [rows |-> (n + 2 - 1) \div 2, cols |-> 2]

\* grid_rect that gives the last column the width of the others
grid_rect_no_remainder(pane_area, index, total) ==
    LET rows   == grid_dims(total).rows
        cols   == grid_dims(total).cols
        col    == index % cols
        row    == index \div cols
        cell_w == pane_area.width \div cols
        cell_h == pane_area.height \div rows
        is_last_alone == index = total - 1 /\ total % cols # 0
    IN  Rect(pane_area.x + col * cell_w,
             pane_area.y + row * cell_h,
             IF is_last_alone THEN pane_area.width ELSE cell_w,
             IF row = rows - 1 THEN pane_area.height - row * cell_h ELSE cell_h)

\* index counts from 0 as in the source
grid_rect(pane_area, index, total) ==
    LET rows   == grid_dims(total).rows
        cols   == grid_dims(total).cols
        col    == index % cols
        row    == index \div cols
        cell_w == pane_area.width \div cols
        cell_h == pane_area.height \div rows
        is_last_alone == index = total - 1 /\ total % cols # 0
    IN  Rect(pane_area.x + col * cell_w,
             pane_area.y + row * cell_h,
             IF is_last_alone THEN pane_area.width
             ELSE IF col = cols - 1 THEN pane_area.width - col * cell_w
             ELSE cell_w,
             IF row = rows - 1 THEN pane_area.height - row * cell_h ELSE cell_h)

InitGrid ==
    /\ features = <<>>
    /\ ret = NoCall
    /\ RaceIdle
    /\ RunIdle
    /\ TuiIdle
    /\ PtyIdle
    /\ OrchIdle
    /\ area \in {Rect(x, y, w, h) : x \in 0..MaxOrigin, y \in 0..MaxOrigin,
                                    w \in 1..MaxSide, h \in 1..MaxSide}
    /\ nr_panes \in 1..MaxPanes
    /\ rects = <<>>

\* the draw closure: a rectangle for each pane of the frame
Layout ==
    /\ rects = <<>>
    /\ rects' = [i \in 1..nr_panes |-> grid_rect(area, i - 1, nr_panes)]
    /\ UNCHANGED <<listVars, raceVars, runVars, tuiVars, ptyVars, orchVars, area,
                   nr_panes>>

NextGrid == Layout

SpecGrid == InitGrid /\ [][NextGrid]_vars

---------------------------------------------------------------------------
(* SpecPane: one PtyPane (src/src/tui.rs) from PtyPane::new on: its child, *)
(* its exit-watcher, reader and writer threads, and the multiplexer that   *)
(* draws the pane and routes keys to it.  A chunk the child writes counts  *)
(* as one read; the bytes sent to the pane are numbered in the order they  *)
(* are sent, so a chunk is a sequence of consecutive numbers.  A size is   *)
(* <<rows, cols>>.  The pane is not dropped here: see SpecDrop.             *)

\* the inner sizes a frame gives the pane
Sizes == {<<24, 80>>, <<40, 120>>, <<24, 0>>, <<0, 80>>}

\* the lengths of the byte sequences handle_pane_key_event sends
ChunkLens == {1, 3}

Parser(size, processed) == [size |-> size, processed |-> processed]

\* a store that flips the flag
store_flips(flag) == ~flag

\* exited.store(true, Ordering::Release): the value of the flag afterwards
store_true(flag) == TRUE

\* set_terminal_size(fd, rows, cols): the window size afterwards
set_terminal_size(ws, rows, cols) == <<rows, cols>>

NoResize == [inner |-> <<>>, ioctl |-> FALSE]

\* resize_to_inner without the test for an empty size
resize_to_inner_any_size(p, last, ws, inner) ==
    IF inner = last
    THEN [parser |-> p, last_size |-> last, winsize |-> ws, ioctl |-> FALSE]
    ELSE [parser |-> [p EXCEPT !.size = inner], last_size |-> inner,
          winsize |-> set_terminal_size(ws, inner[1], inner[2]),
          ioctl |-> TRUE]

\* resize_to_inner without the comparison with last_size
resize_to_inner_every_draw(p, last, ws, inner) ==
    IF inner[2] = 0 \/ inner[1] = 0
    THEN [parser |-> p, last_size |-> last, winsize |-> ws, ioctl |-> FALSE]
    ELSE [parser |-> [p EXCEPT !.size = inner], last_size |-> inner,
          winsize |-> set_terminal_size(ws, inner[1], inner[2]),
          ioctl |-> TRUE]

\* resize_to_inner: unless the size is unchanged or empty, last_size is set,
\* then parser.screen_mut().set_size, then set_terminal_size
resize_to_inner(p, last, ws, inner) ==
    IF inner = last \/ inner[2] = 0 \/ inner[1] = 0
    THEN [parser |-> p, last_size |-> last, winsize |-> ws, ioctl |-> FALSE]
    ELSE [parser |-> [p EXCEPT !.size = inner], last_size |-> inner,
          winsize |-> set_terminal_size(ws, inner[1], inner[2]),
          ioctl |-> TRUE]

\* a kill that also closes the master descriptor
kill_and_close(fd, h, c) == [master_fd |-> fd, hups |-> h + 1, closes |-> c + 1]

\* PtyPane::kill: SIGHUP to child_pid, which is Some in every pane that
\* PtyPane::new returns
kill(fd, h, c) == [master_fd |-> fd, hups |-> h + 1, closes |-> c]

\* Drop for PtyPane: kill, then the master descriptor is closed if it is
\* not -1, and set to -1
drop(fd, h, c) ==
    LET k == kill(fd, h, c)
    IN  [master_fd |-> -1,
         hups |-> k.hups,
         closes |-> IF k.master_fd >= 0 THEN k.closes + 1 ELSE k.closes]

\* libc::write(fd, ptr, len) that returned n: the bytes the descriptor took
libc_write(bytes, n) == SubSeq(bytes, 1, n)

RECURSIVE Flatten(_)
Flatten(chunks) ==
    IF chunks = <<>> THEN <<>> ELSE Head(chunks) \o Flatten(Tail(chunks))

\* the next len bytes sent after the chunks in sent
Chunk(chunks, len) == [j \in 1..len |-> Len(Flatten(chunks)) + j]

Recv == [pos |-> "recv", bytes |-> <<>>]

InitPane ==
    /\ features = <<>>
    /\ ret = NoCall
    /\ RaceIdle
    /\ RunIdle
    /\ TuiIdle
    /\ GridIdle
    /\ OrchIdle
    /\ child = "running"
    /\ watcher = "waiting"
    /\ reader = "reading"
    /\ exited = FALSE
    /\ parser = Parser(<<24, 80>>, 0)
    /\ last_size = <<24, 80>>
    /\ output = 0
    /\ chan = <<>>
    /\ sent = <<>>
    /\ writer = Recv
    /\ pty_in = <<>>
    /\ winsize = set_terminal_size(<<>>, 24, 80)
    /\ resized = NoResize
    /\ master_fd = 3
    /\ hups = 0
    /\ closes = 0
    /\ dropped = FALSE
    /\ actor = "none"

paneFrame == <<listVars, raceVars, runVars, tuiVars, gridVars, orchVars>>

\* the child writes to its terminal
ChildWrite ==
    /\ child = "running"
    /\ parser.processed + output < MaxOutput
    /\ output' = output + 1
    /\ actor' = "child"
    /\ resized' = NoResize
    /\ UNCHANGED <<paneFrame, winsize, master_fd, hups, closes, dropped, child, watcher, reader, exited, parser, last_size,
                   chan, sent, writer, pty_in>>

\* the child closes its terminal and runs on
ChildDetach ==
    /\ child = "running"
    /\ child' = "detached"
    /\ actor' = "child"
    /\ resized' = NoResize
    /\ UNCHANGED <<paneFrame, winsize, master_fd, hups, closes, dropped, watcher, reader, exited, parser, last_size, output,
                   chan, sent, writer, pty_in>>

\* the child stops reading its terminal (stopped by a signal, or busy) after
\* the terminal's input queue has filled
ChildPause ==
    /\ child = "running"
    /\ child' = "paused"
    /\ actor' = "child"
    /\ resized' = NoResize
    /\ UNCHANGED <<paneFrame, winsize, master_fd, hups, closes, dropped, watcher, reader, exited, parser, last_size, output,
                   chan, sent, writer, pty_in>>

\* the child reads its terminal again
ChildResume ==
    /\ child = "paused"
    /\ child' = "running"
    /\ actor' = "child"
    /\ resized' = NoResize
    /\ UNCHANGED <<paneFrame, winsize, master_fd, hups, closes, dropped, watcher, reader, exited, parser, last_size, output,
                   chan, sent, writer, pty_in>>

ChildExit ==
    /\ child \in {"running", "paused", "detached"}
    /\ child' = "exited"
    /\ actor' = "child"
    /\ resized' = NoResize
    /\ UNCHANGED <<paneFrame, winsize, master_fd, hups, closes, dropped, watcher, reader, exited, parser, last_size, output,
                   chan, sent, writer, pty_in>>

\* exit-watcher thread: child.wait() returns
WatcherWake ==
    /\ watcher = "waiting"
    /\ child = "exited"
    /\ watcher' = "woken"
    /\ actor' = "watcher"
    /\ resized' = NoResize
    /\ UNCHANGED <<paneFrame, winsize, master_fd, hups, closes, dropped, child, reader, exited, parser, last_size, output,
                   chan, sent, writer, pty_in>>

\* exit-watcher thread: exited.store(true)
WatcherStore ==
    /\ watcher = "woken"
    /\ exited' = store_true(exited)
    /\ watcher' = "done"
    /\ actor' = "watcher"
    /\ resized' = NoResize
    /\ UNCHANGED <<paneFrame, winsize, master_fd, hups, closes, dropped, child, reader, parser, last_size, output,
                   chan, sent, writer, pty_in>>

\* reader thread: file.read gave Ok(n), the parser processes the bytes
ReaderProcess ==
    /\ reader = "reading"
    /\ output > 0
    /\ output' = output - 1
    /\ parser' = [parser EXCEPT !.processed = @ + 1]
    /\ actor' = "reader"
    /\ resized' = NoResize
    /\ UNCHANGED <<paneFrame, winsize, master_fd, hups, closes, dropped, child, watcher, reader, exited, last_size,
                   chan, sent, writer, pty_in>>

\* reader thread: file.read gave Ok(0) or Err, the loop breaks
ReaderBreak ==
    /\ reader = "reading"
    /\ output = 0
    /\ child \in {"detached", "exited"}
    /\ reader' = "broke"
    /\ actor' = "reader"
    /\ resized' = NoResize
    /\ UNCHANGED <<paneFrame, winsize, master_fd, hups, closes, dropped, child, watcher, exited, parser, last_size, output,
                   chan, sent, writer, pty_in>>

\* reader thread: exited.store(true)
ReaderStore ==
    /\ reader = "broke"
    /\ exited' = store_true(exited)
    /\ reader' = "done"
    /\ actor' = "reader"
    /\ resized' = NoResize
    /\ UNCHANGED <<paneFrame, winsize, master_fd, hups, closes, dropped, child, watcher, parser, last_size, output,
                   chan, sent, writer, pty_in>>

\* the multiplexer draws the pane: resize_to_inner, then the screen is read
Draw(inner) ==
    /\ ~dropped
    /\ LET r == resize_to_inner(parser, last_size, winsize, inner)
       IN  /\ parser' = r.parser
           /\ last_size' = r.last_size
           /\ winsize' = r.winsize
           /\ resized' = [inner |-> inner, ioctl |-> r.ioctl]
    /\ actor' = "draw"
    /\ UNCHANGED <<paneFrame, child, watcher, reader, exited, output,
                   chan, sent, writer, pty_in, master_fd, hups, closes, dropped>>

\* the multiplexer routes a key to the pane: sender.send(input_bytes)
SendKey(len) ==
    /\ ~dropped
    /\ Len(sent) < MaxChunks
    /\ chan' = Append(chan, Chunk(sent, len))
    /\ sent' = Append(sent, Chunk(sent, len))
    /\ actor' = "input"
    /\ resized' = NoResize
    /\ UNCHANGED <<paneFrame, winsize, master_fd, hups, closes, dropped, child, watcher, reader, exited, parser, last_size,
                   output, writer, pty_in>>

\* writer thread: rx.recv() gave Ok(bytes)
WriterRecv ==
    /\ writer.pos = "recv"
    /\ chan # <<>>
    /\ writer' = [pos |-> "write", bytes |-> Head(chan)]
    /\ chan' = Tail(chan)
    /\ actor' = "writer"
    /\ resized' = NoResize
    /\ UNCHANGED <<paneFrame, winsize, master_fd, hups, closes, dropped, child, watcher, reader, exited, parser, last_size,
                   output, sent, pty_in>>

\* writer thread: libc::write, called once, its result dropped.  The call
\* returns the number of bytes written, which may be less than len, or -1;
\* on the blocking descriptor it does not return while the terminal's input
\* queue is full and the child does not read.
WriterWrite ==
    /\ writer.pos = "write"
    /\ child # "paused"
    /\ \E n \in 0..Len(writer.bytes) :
          /\ child # "running" => n = 0
          /\ pty_in' = pty_in \o libc_write(writer.bytes, n)
    /\ writer' = [writer EXCEPT !.pos = "drain"]
    /\ actor' = "writer"
    /\ resized' = NoResize
    /\ UNCHANGED <<paneFrame, winsize, master_fd, hups, closes, dropped, child, watcher, reader, exited, parser, last_size,
                   output, chan, sent>>

\* writer thread: libc::tcdrain returns
WriterDrain ==
    /\ writer.pos = "drain"
    /\ writer' = Recv
    /\ actor' = "writer"
    /\ resized' = NoResize
    /\ UNCHANGED <<paneFrame, winsize, master_fd, hups, closes, dropped, child, watcher, reader, exited, parser, last_size,
                   output, chan, sent, pty_in>>

NextPane ==
    \/ ChildWrite
    \/ ChildDetach
    \/ ChildPause
    \/ ChildResume
    \/ ChildExit
    \/ WatcherWake
    \/ WatcherStore
    \/ ReaderProcess
    \/ ReaderBreak
    \/ ReaderStore
    \/ \E inner \in Sizes : Draw(inner)
    \/ \E len \in ChunkLens : SendKey(len)
    \/ WriterRecv
    \/ WriterWrite
    \/ WriterDrain

SpecPane == InitPane /\ [][NextPane]_vars

---------------------------------------------------------------------------
(* SpecDrop: the end of a PtyPane.  The pane as PtyPane::new returned it   *)
(* takes keys and kill() calls until it is dropped; the writer thread ends *)
(* once the dropped pane's channel is empty.  The exit-watcher and the     *)
(* reader do not touch what the drop touches and are left out.             *)

\* writer thread: rx.recv() gave Err, the sender is gone and the channel is
\* empty; the loop ends and the thread closes its descriptor
WriterClose ==
    /\ writer.pos = "recv"
    /\ chan = <<>>
    /\ dropped
    /\ writer' = [pos |-> "closed", bytes |-> <<>>]
    /\ actor' = "writer"
    /\ resized' = NoResize
    /\ UNCHANGED <<paneFrame, winsize, master_fd, hups, closes, dropped,
                   child, watcher, reader, exited, parser, last_size,
                   output, chan, sent, pty_in>>

\* a caller calls pane.kill()
Kill ==
    /\ ~dropped
    /\ hups < MaxKills
    /\ LET k == kill(master_fd, hups, closes)
       IN  /\ master_fd' = k.master_fd
           /\ hups' = k.hups
           /\ closes' = k.closes
    /\ actor' = "kill"
    /\ resized' = NoResize
    /\ UNCHANGED <<paneFrame, winsize, dropped, child, watcher, reader, exited,
                   parser, last_size, output, chan, sent, writer, pty_in>>

\* the pane is removed from the pane list and dropped
Drop ==
    /\ ~dropped
    /\ LET d == drop(master_fd, hups, closes)
       IN  /\ master_fd' = d.master_fd
           /\ hups' = d.hups
           /\ closes' = d.closes
    /\ dropped' = TRUE
    /\ actor' = "drop"
    /\ resized' = NoResize
    /\ UNCHANGED <<paneFrame, winsize, child, watcher, reader, exited,
                   parser, last_size, output, chan, sent, writer, pty_in>>

NextDrop ==
    \/ ChildExit
    \/ \E len \in ChunkLens : SendKey(len)
    \/ WriterRecv
    \/ WriterWrite
    \/ WriterDrain
    \/ WriterClose
    \/ Kill
    \/ Drop

SpecDrop == InitPane /\ [][NextDrop]_vars

---------------------------------------------------------------------------
(* SpecOrch: the background orchestration run_orchestration                *)
(* (src/src/tui_orchestrator.rs) beside agents that edit features.json.    *)
(* One iteration of its loop is one step; FeatureList::load is taken to    *)
(* succeed.                                                                *)

\* what an iteration did: whether it called verify_all, and the update it
\* passed to on_update last, if any
Polled(ran, verify_results, reopened, done) ==
    [ran |-> ran, verify_results |-> verify_results, reopened |-> reopened,
     all_done |-> done]

NoUpdate == Polled(FALSE, {}, {}, FALSE)

\* one iteration of the loop after the sleep: fs is features.json, last is
\* last_done_count, failed the features whose verify script fails, and
\* verify_ok whether verify_all returned Ok
orchestration_poll(fs, last, failed, verify_ok) ==
    LET current_done == status_counts(fs).done
        reopened == reopen_failed(fs, failed, 1)
    IN  IF current_done > last
        THEN IF ~verify_ok
             THEN [store |-> fs, last_done_count |-> current_done,
                   poll |-> Polled(TRUE, {}, {}, FALSE), brk |-> FALSE]
             ELSE IF all_done(reopened)
             THEN [store |-> reopened, last_done_count |-> current_done,
                   poll |-> Polled(TRUE, verified(fs), failed, TRUE),
                   brk |-> TRUE]
             ELSE IF all_done(fs)
             THEN [store |-> reopened, last_done_count |-> current_done,
                   poll |-> Polled(TRUE, {}, {}, TRUE), brk |-> TRUE]
             ELSE [store |-> reopened, last_done_count |-> current_done,
                   poll |-> Polled(TRUE, verified(fs), failed, FALSE),
                   brk |-> FALSE]
        ELSE IF all_done(fs)
             THEN [store |-> fs, last_done_count |-> last,
                   poll |-> Polled(FALSE, {}, {}, TRUE), brk |-> TRUE]
             ELSE [store |-> fs, last_done_count |-> last,
                   poll |-> NoUpdate, brk |-> FALSE]

InitOrch ==
    /\ features = <<>>
    /\ ret = NoCall
    /\ store \in RunLists(NumOrchTasks)
    /\ pc = <<>>
    /\ snap = <<>>
    /\ pick = <<>>
    /\ next_agent_id = <<>>
    /\ handed = <<>>
    /\ RunIdle
    /\ TuiIdle
    /\ GridIdle
    /\ PtyIdle
    /\ last_done_count = 0
    /\ opc = "loop"
    /\ poll = NoUpdate
    /\ fresh = {}

orchFrame == <<features, ret, pc, snap, pick, next_agent_id, handed, tuiVars,
               gridVars, ptyVars, config, rpc, session, outcome, entries,
               workers, idx, main, report>>

\* an agent in a pane claims a pending feature, or claims it and marks it
\* done, or marks the feature it claimed done
OrchAgentEdit(i, e) ==
    /\ store[i].status \in {Pending, Claimed}
    /\ store[i].status = Claimed => e = Done
    /\ store' = agent_edit(store, store[i].id, AgentNames[1], e)
    /\ fresh' = IF e = Done THEN fresh \cup {store[i].id} ELSE fresh
    /\ UNCHANGED <<orchFrame, stop, last_done_count, opc, poll>>

\* the owner of the stop flag sets it
OrchStop ==
    /\ opc = "loop"
    /\ ~stop
    /\ stop' = TRUE
    /\ UNCHANGED <<orchFrame, store, last_done_count, opc, poll, fresh>>

\* the loop sees the stop flag and breaks
OrchBreak ==
    /\ opc = "loop"
    /\ stop
    /\ opc' = "stopped"
    /\ UNCHANGED <<orchFrame, store, stop, last_done_count, poll, fresh>>

\* one iteration: sleep, load, verify and reopen if the done count grew
OrchPoll ==
    /\ opc = "loop"
    /\ ~stop
    /\ \E failed \in SUBSET verified(store), verify_ok \in BOOLEAN :
          LET r == orchestration_poll(store, last_done_count, failed, verify_ok)
          IN  /\ store' = r.store
              /\ last_done_count' = r.last_done_count
              /\ poll' = r.poll
              /\ opc' = IF r.brk THEN "all_done" ELSE "loop"
    /\ fresh' = {}
    /\ UNCHANGED <<orchFrame, stop>>

NextOrch ==
    \/ \E i \in 1..Len(store), e \in {Claimed, Done} : OrchAgentEdit(i, e)
    \/ OrchStop
    \/ OrchBreak
    \/ OrchPoll

SpecOrch == InitOrch /\ [][NextOrch]_vars

---------------------------------------------------------------------------
(* Properties of the mutating operations, checked under Spec *)

\* the feature of the list with this id has status Done
IsDone(fs, dep) == \E j \in 1..Len(fs) : fs[j].id = dep /\ fs[j].status = Done

\* every id in depends_on of the i-th feature has status Done
DepsAllDone(fs, i) ==
    \A k \in 1..Len(fs[i].depends_on) : IsDone(fs, fs[i].depends_on[k])

Exists(fs, id) == \E i \in 1..Len(fs) : fs[i].id = id

\* C1: for every task t of the list, claim(t, w) succeeds if and only if
\* status(t) is Pending and every id in t.depends_on has status Done; after
\* a successful claim status(t) is Claimed and claimed_by(t) is w.
C1_ClaimIffPendingDepsDone ==
    [][(ret'.op = "claim" /\ Exists(features, ret'.id)) =>
        LET i == find(features, ret'.id) IN
        /\ (ret'.result = Ok) <=>
                (features[i].status = Pending /\ DepsAllDone(features, i))
        /\ (ret'.result = Ok) =>
                (features'[i].status = Claimed /\ features'[i].claimed_by = ret'.agent)
      ]_vars

\* C3 as stated: in every reachable state a task is Claimed or Done only if
\* every id in its depends_on is Done.
C3_ClaimedOrDoneOnlyIfDepsDone ==
    \A i \in 1..Len(features) :
        features[i].status \in {Claimed, Done} => DepsAllDone(features, i)

\* C3 amended: a step gives a task the status Claimed only when every id in
\* its depends_on has status Done in the list the step starts from.
C3_BecomesClaimedOnlyIfDepsDone ==
    [][\A i \in 1..Len(features) :
          (features[i].status # Claimed /\ features'[i].status = Claimed)
              => DepsAllDone(features, i)
      ]_vars

\* a claim has just succeeded on a task that has a dependency
C3_Witness ==
    /\ ret.op = "claim" /\ ret.result = Ok
    /\ \E i \in 1..Len(features) :
          /\ features[i].id = ret.id
          /\ features[i].status = Claimed
          /\ features[i].depends_on # <<>>

\* C4 as stated: claimed_by is set if and only if the status is Claimed.
C4_ClaimedByIffClaimed ==
    \A i \in 1..Len(features) :
        (features[i].claimed_by # None) <=> (features[i].status = Claimed)

\* C4 amended: a Claimed task has claimed_by set, and a task with claimed_by
\* set is Claimed, Done or Blocked (never Pending).
C4_ClaimedByAmended ==
    \A i \in 1..Len(features) :
        /\ features[i].status = Claimed => features[i].claimed_by # None
        /\ features[i].claimed_by # None =>
                features[i].status \in {Claimed, Done, Blocked}

\* a claimed task was marked done, then another one was reopened
C4_Witness ==
    /\ ret.op = "reopen" /\ ret.result = Ok
    /\ \E i \in 1..Len(features) :
          features[i].status = Done /\ features[i].claimed_by # None

\* C6: while claimed_by(t) is set, which it is from a successful claim on,
\* every claim(t, w2) fails with AlreadyClaimed (naming the holder) and
\* changes nothing, and only reopen(t) changes claimed_by(t).
C6_ClaimedUntilReopen ==
    [][\A i \in 1..Len(features) :
          features[i].claimed_by # None =>
            /\ (ret'.op = "claim" /\ ret'.id = features[i].id) =>
                    /\ ret'.result = AlreadyClaimed
                    /\ ret'.who = features[i].claimed_by
                    /\ features' = features
            /\ (features'[i].claimed_by # features[i].claimed_by) =>
                    (ret'.op = "reopen" /\ ret'.id = features[i].id)
      ]_vars

\* a second worker's claim was refused on a task that was claimed and then
\* marked done
C6_Witness ==
    /\ ret.op = "claim" /\ ret.result = AlreadyClaimed
    /\ ret.agent # ret.who
    /\ \E i \in 1..Len(features) :
          features[i].id = ret.id /\ features[i].status = Done

\* the ids of depends_on of the i-th feature whose status is not Done,
\* those that name no task included
UnmetOf(fs, i) == SelectSeq(fs[i].depends_on, LAMBDA dep : ~IsDone(fs, dep))

\* C7: claim(id, w) returns NotFound when no task has that id; otherwise
\* AlreadyClaimed when claimed_by is set; otherwise DepsNotMet with exactly
\* the ids of depends_on that are not Done; otherwise it sets status Claimed
\* and claimed_by.  A failing claim changes nothing.
C7_ClaimErrorOrder ==
    [][ret'.op = "claim" =>
        IF ~Exists(features, ret'.id)
        THEN ret'.result = NotFound /\ features' = features
        ELSE LET i == find(features, ret'.id) IN
             IF features[i].claimed_by # None
             THEN ret'.result = AlreadyClaimed /\ features' = features
             ELSE IF UnmetOf(features, i) # <<>>
             THEN /\ ret'.result = DepsNotMet
                  /\ ret'.unmet = UnmetOf(features, i)
                  /\ features' = features
             ELSE /\ ret'.result = Ok
                  /\ features'[i].status = Claimed
                  /\ features'[i].claimed_by = ret'.agent
      ]_vars

\* a claim was refused with two unmet ids, one of which names no task
C7_Witness ==
    /\ ret.op = "claim" /\ ret.result = DepsNotMet
    /\ Len(ret.unmet) = 2
    /\ contains(ret.unmet, NumTasks + 1)

---------------------------------------------------------------------------
(* Properties of the queries, checked under SpecQuery *)

\* the positions of the tasks that are Pending with every dependency Done
ClaimableSet(fs) ==
    {i \in 1..Len(fs) : fs[i].status = Pending /\ DepsAllDone(fs, i)}

\* i comes before j: lower priority number, or equal and earlier in the list
Before(fs, i, j) ==
    \/ fs[i].priority < fs[j].priority
    \/ fs[i].priority = fs[j].priority /\ i < j

\* C5: next_claimable returns only a task that is Pending and whose
\* dependencies are all Done, and returns none exactly when there is no
\* such task.
C5_NextClaimableSound ==
    ret.op = "next_claimable" =>
        /\ \A k \in 1..Len(ret.out) : ret.out[k] \in ClaimableSet(features)
        /\ (ret.out = <<>>) <=> (ClaimableSet(features) = {})

\* next_claimable passed over an earlier Pending task of no higher priority
\* number because a dependency of it is not Done
C5_Witness ==
    /\ ret.op = "next_claimable" /\ Len(ret.out) = 1
    /\ \E j \in 1..(ret.out[1] - 1) :
          /\ features[j].status = Pending
          /\ features[j].priority <= features[ret.out[1]].priority
          /\ ~DepsAllDone(features, j)

\* C8: among the tasks that are Pending with all dependencies Done,
\* next_claimable returns the one with the lowest priority number, and among
\* equal priorities the one that comes first in the list.
C8_LowestPriorityFirst ==
    (ret.op = "next_claimable" /\ ClaimableSet(features) # {}) =>
        /\ Len(ret.out) = 1
        /\ ret.out[1] \in ClaimableSet(features)
        /\ \A j \in ClaimableSet(features) \ {ret.out[1]} :
                Before(features, ret.out[1], j)

\* the task returned follows a claimable task of higher priority number and
\* precedes a claimable task of the same priority
C8_Witness ==
    /\ ret.op = "next_claimable" /\ Len(ret.out) = 1
    /\ \E j, k \in ClaimableSet(features) :
          /\ j < ret.out[1] /\ features[j].priority > features[ret.out[1]].priority
          /\ k > ret.out[1] /\ features[k].priority = features[ret.out[1]].priority

\* the claimable tasks whose depends_on directly contains c
Dependents(fs, c) ==
    {i \in ClaimableSet(fs) : \E k \in 1..Len(fs[i].depends_on) : fs[i].depends_on[k] = c}

\* C9: next_after(c) returns the lowest-priority claimable task whose
\* depends_on directly contains c when there is one, and otherwise (also
\* when c names no task) exactly what next_claimable returns.
C9_NextAfter ==
    ret.op = "next_after" =>
        IF Dependents(features, ret.id) # {}
        THEN /\ Len(ret.out) = 1
             /\ ret.out[1] \in Dependents(features, ret.id)
             /\ \A j \in Dependents(features, ret.id) :
                    features[ret.out[1]].priority <= features[j].priority
        ELSE ret.out = Opt(next_claimable(features))

\* next_after returned a direct dependent although another claimable task
\* comes first in global priority order
C9_Witness ==
    /\ ret.op = "next_after" /\ Len(ret.out) = 1
    /\ ret.out[1] \in Dependents(features, ret.id)
    /\ next_claimable(features) # ret.out[1]

\* C10: next_n_claimable(n) returns min(n, k) of the k claimable tasks,
\* without duplicates, ordered by priority and by list position among equal
\* priorities, and every claimable task left out comes after all of them in
\* that order.
C10_NextNClaimable ==
    ret.op = "next_n_claimable" =>
        LET C == ClaimableSet(features)
            k == Cardinality(C)
            out == ret.out
        IN  /\ Len(out) = IF ret.n <= k THEN ret.n ELSE k
            /\ \A a \in 1..Len(out) : out[a] \in C
            /\ \A a, b \in 1..Len(out) :
                    a < b => (out[a] # out[b] /\ Before(features, out[a], out[b]))
            /\ \A j \in C \ {out[a] : a \in 1..Len(out)} :
                    \A a \in 1..Len(out) : Before(features, out[a], j)

\* two of three claimable tasks were returned: they have equal priority and
\* the task left out is the first of the list
C10_Witness ==
    /\ ret.op = "next_n_claimable" /\ ret.n = 2 /\ Len(ret.out) = 2
    /\ Cardinality(ClaimableSet(features)) = 3
    /\ features[ret.out[1]].priority = features[ret.out[2]].priority
    /\ 1 \in ClaimableSet(features) \ {ret.out[1], ret.out[2]}

---------------------------------------------------------------------------
(* Claims about mark_done, mark_blocked and reopen *)

\* C12: when claim(t, w) succeeds, claim; mark_done(t); reopen(t) leaves t
\* Pending with claimed_by = None and blocked_reason = None, and one more
\* reopen(t) changes nothing.
C12_ReopenRoundTrip ==
    [][ /\ (ret.op = "mark_done" /\ ret'.op = "reopen") =>
              LET i == find(features', ret'.id) IN
              /\ i # 0
              /\ ret'.result = Ok
              /\ features'[i].status = Pending
              /\ features'[i].claimed_by = None
              /\ features'[i].blocked_reason = None
        /\ (ret'.op = "reopen_again") =>
              /\ ret'.result = Ok
              /\ features' = features ]_vars

\* the second reopen has been applied, to a feature that has dependencies
C12_Witness ==
    /\ ret.op = "reopen_again"
    /\ \E i \in 1..Len(features) :
          /\ features[i].id = ret.id
          /\ features[i].status = Pending
          /\ features[i].claimed_by = None
          /\ features[i].depends_on # <<>>

\* C13: mark_done, mark_blocked and reopen fail if and only if no feature
\* has the id, the failure is NotFound and leaves the list alone; for an
\* existing id they succeed whatever its status and dependencies.
C13_NotFoundOnly ==
    [][ ret'.op \in {"mark_done", "mark_blocked", "reopen"} =>
            IF Exists(features, ret'.id)
            THEN ret'.result = Ok
            ELSE ret'.result = NotFound /\ features' = features ]_vars

\* mark_done has succeeded on a feature whose dependencies are not done
C13_Witness ==
    /\ ret.op = "mark_done"
    /\ ret.result = Ok
    /\ \E i \in 1..Len(features) :
          /\ features[i].id = ret.id
          /\ features[i].status = Done
          /\ ~DepsAllDone(features, i)

---------------------------------------------------------------------------
(* Claims about milestone_claimable (SpecMilestone) *)

\* the ids reachable from the ids S along depends_on, S included
RECURSIVE Closure(_, _)
Closure(fs, S) ==
    LET S2 == S \cup UNION {SeqToSet(fs[i].depends_on) :
                                i \in {j \in 1..Len(fs) : fs[j].id \in S}}
    IN  IF S2 = S THEN S ELSE Closure(fs, S2)

\* the transitive dependency set of the feature at position i
TransDeps(fs, i) == Closure(fs, SeqToSet(fs[i].depends_on))

\* the incomplete Review features, by position
Milestones(fs) ==
    {i \in 1..Len(fs) : fs[i].feature_type = Review /\ fs[i].status # Done}

\* what the group of the milestone at position i has to hold
ClaimableIdSet(fs) == {fs[i].id : i \in ClaimableSet(fs)}

GroupOf(fs, i) ==
    (ClaimableIdSet(fs) \cap TransDeps(fs, i))
        \ UNION {TransDeps(fs, j) : j \in {m \in Milestones(fs) : Before(fs, m, i)}}

OrphansOf(fs) ==
    ClaimableIdSet(fs) \ UNION {TransDeps(fs, j) : j \in Milestones(fs)}

NoRepeat(seq) == \A k, l \in 1..Len(seq) : seq[k] = seq[l] => k = l

\* C11: milestone_claimable lists the groups of the incomplete Review
\* features in ascending priority; a milestone's group holds exactly the
\* claimable features of its transitive dependency set that no earlier
\* milestone took; the claimable features no milestone reaches form the
\* group of the empty id, after all the others.
C11_MilestoneGroups ==
    ret.op = "milestone_claimable" =>
        LET out == ret.out IN
        /\ \A k \in 1..Len(out) :
              /\ NoRepeat(out[k].ids)
              /\ IF out[k].ms = 0
                 THEN k = Len(out) /\ SeqToSet(out[k].ids) = OrphansOf(features)
                 ELSE \E i \in Milestones(features) :
                        /\ features[i].id = out[k].ms
                        /\ SeqToSet(out[k].ids) = GroupOf(features, i)
        /\ \A k, l \in 1..Len(out) :
              (k < l /\ out[l].ms # 0) =>
                  Before(features, find(features, out[k].ms),
                                   find(features, out[l].ms))
        /\ \A i \in Milestones(features) :
              GroupOf(features, i) # {} =>
                  \E k \in 1..Len(out) : out[k].ms = features[i].id
        /\ OrphansOf(features) # {} =>
              (out # <<>> /\ out[Len(out)].ms = 0)

\* a milestone's group holds a feature that is not among the milestone's
\* own depends_on, and the group of the empty id follows it
C11_Witness ==
    /\ ret.op = "milestone_claimable"
    /\ Len(ret.out) = 2
    /\ ret.out[1].ms # 0
    /\ \E id \in SeqToSet(ret.out[1].ids) :
          ~contains(features[find(features, ret.out[1].ms)].depends_on, id)
    /\ ret.out[2].ms = 0

---------------------------------------------------------------------------
(* Claims about the headless loops (SpecRun) *)

\* C14: when the stop sentinel is there as the loop reaches the check at
\* the top of a round, however long ago it was requested, the run returns
\* Stopped with the sessions completed, starts no agent in that round, and
\* the sentinel is gone afterwards.
C14_StopHonoured ==
    [][ (rpc = "check_stop" /\ stop) =>
            /\ outcome' = Outcome(Stopped, session, 0)
            /\ rpc' = "done"
            /\ ~stop'
            /\ workers' = workers
            /\ \A w \in 1..Len(workers) : workers[w].state \in {"exited", "failed"} ]_vars

\* a multi-agent run has been stopped after a completed round
C14_Witness ==
    /\ outcome.kind = Stopped
    /\ outcome.sessions >= 1
    /\ config.mode = "multi"
    /\ ~stop

\* C15: in run_multi_agent every feature handed to a worker is, when the
\* worker is started, Claimed in features.json with claimed_by that
\* worker, and a round hands out at most num_agents features.
C15_ClaimedBeforeSpawn ==
    [][ (config.mode = "multi" /\ Len(workers') > Len(workers)) =>
            LET h == workers'[Len(workers')]
                i == find(store, h.feature)
            IN  /\ i # 0
                /\ store[i].status = Claimed
                /\ store[i].claimed_by = h.agent
                /\ Len(entries) <= config.num_agents ]_vars

\* C16: in run_multi_agent no merge, verify or review step begins while a
\* worker of the round is still running, and every worker that is running
\* belongs to the round the loop is in, which is still creating or joining
\* its workers.
C16_RoundBarrier ==
    config.mode = "multi" =>
        /\ rpc \in {"merge", "cleanup", "compliance", "verify", "git_sync", "review"}
               => \A w \in 1..Len(workers) :
                       workers[w].state \in {"exited", "failed"}
        /\ \A w \in 1..Len(workers) :
               workers[w].state \in {"thread", "running"} =>
                   /\ workers[w].round = session
                   /\ rpc \in {"create", "join"}

\* the merges of a second round begin, its two workers having exited
C16_Witness ==
    /\ config.mode = "multi"
    /\ rpc = "merge"
    /\ session >= 1
    /\ Len(workers) >= 2
    /\ \A w \in 1..Len(workers) : workers[w].state = "exited"

\* how many of the workers, in handle order, have had their merge tried
Tried == IF rpc = "merge" THEN idx - 1 ELSE Len(workers)

\* C17: in run_multi_agent the branches are merged one at a time in the
\* order the features were handed out; a merge that conflicts is aborted
\* alone and leaves the main line as it was, its failure is reported for
\* that worker, and every other worker's branch is merged.
C17_MergeEachInOrder ==
    (config.mode = "multi"
        /\ rpc \in {"merge", "cleanup", "compliance", "verify", "git_sync", "review"}) =>
        LET tried == SubSeq(workers, 1, Tried) IN
        /\ ~main.conflicted
        /\ main.merged =
              [k \in 1..Len(SelectSeq(tried, LAMBDA w : ~w.conflict)) |->
                    SelectSeq(tried, LAMBDA w : ~w.conflict)[k].agent]
        /\ \A k \in 1..Len(tried) :
              tried[k].conflict <=> <<"merge failed", tried[k].agent>> \in report
        /\ \A k, l \in 1..Len(workers) :
              k < l => \E a, b \in 1..Len(entries) :
                          /\ a < b
                          /\ entries[a] = workers[k].feature
                          /\ entries[b] = workers[l].feature

\* the first worker's merge conflicted and the second worker's branch is
\* merged all the same
C17_Witness ==
    /\ config.mode = "multi"
    /\ rpc = "cleanup"
    /\ Len(workers) = 2
    /\ workers[1].conflict
    /\ ~workers[2].conflict
    /\ main.merged = <<workers[2].agent>>

\* C18: in both loops, once an executor agent could not be started the
\* round goes no further and the run's outcome is SpawnError.
C18_SpawnFailureEndsRun ==
    (\E a \in SeqToSet(AgentNames) : <<"spawn failed", a>> \in report) =>
        /\ outcome.kind \in {"none", SpawnError}
        /\ rpc \in {"create", "join", "done"}

\* the features of the store that are not Done
NotDone(fs) == {i \in 1..Len(fs) : fs[i].status # Done}

\* C19 as stated: the outcome MaxSessions is returned only when the
\* sessions completed have reached max_sessions, and its remaining count is
\* the number of features whose status is not Done.
C19_MaxSessionsOnlyAtBudget ==
    outcome.kind = MaxSessions =>
        /\ outcome.sessions >= config.max_sessions
        /\ outcome.remaining = Cardinality(NotDone(store))

\* C19 amended: the outcome MaxSessions is returned only when the sessions
\* completed have reached max_sessions or no feature of the list is
\* claimable; some feature is not Done then, and the remaining count is
\* the number of features whose status is not Done.
C19_MaxSessionsOrNoneClaimable ==
    outcome.kind = MaxSessions =>
        /\ \/ outcome.sessions >= config.max_sessions
           \/ ClaimableSet(store) = {}
        /\ outcome.sessions = session
        /\ outcome.remaining = Cardinality(NotDone(store))
        /\ outcome.remaining >= 1

\* the budget ran out with one feature Done and another claimed or blocked
C19_Witness ==
    /\ outcome.kind = MaxSessions
    /\ outcome.sessions = config.max_sessions
    /\ outcome.sessions >= 1
    /\ \E i \in 1..Len(store) : store[i].status = Done
    /\ \E i \in 1..Len(store) : store[i].status \in {Claimed, Blocked}

\* C20: neither loop starts more than max_sessions rounds: a round is in
\* progress only while fewer than max_sessions are completed, and the
\* session count of an outcome is at most max_sessions.
C20_AtMostMaxSessions ==
    /\ session <= config.max_sessions
    /\ rpc \notin {"start", "check_stop", "load", "done"} =>
            session < config.max_sessions
    /\ outcome.kind \in {AllDone, MaxSessions, Stopped} =>
            outcome.sessions <= config.max_sessions

\* a run has used its whole budget of two or more sessions
C20_Witness ==
    /\ outcome.kind = MaxSessions
    /\ config.max_sessions >= 2
    /\ outcome.sessions = config.max_sessions

\* C21: after the verify/reopen step of a round every feature that was Done
\* or Claimed and whose verification failed is Pending with claimed_by and
\* blocked_reason cleared, and every other feature is as it was.
C21_FailedVerifyReopens ==
    [][ (rpc = "verify" /\ rpc' = "git_sync") =>
            /\ Len(store') = Len(store)
            /\ \A i \in 1..Len(store) :
                  IF <<"verify failed", store[i].id>> \in report'
                  THEN /\ store[i].status \in {Done, Claimed}
                       /\ store'[i] = [store[i] EXCEPT !.status = Pending,
                                                       !.claimed_by = None,
                                                       !.blocked_reason = None]
                  ELSE store'[i] = store[i] ]_vars

\* two features failed verification in one round and are Pending again
C21_Witness ==
    /\ rpc = "git_sync"
    /\ Cardinality({i \in 1..Len(store) :
            /\ <<"verify failed", store[i].id>> \in report
            /\ store[i].status = Pending
            /\ store[i].claimed_by = None}) >= 2

\* C22: in run_multi_agent the removal of the worktree is tried for every
\* worker whose worktree was created, whether its merge succeeded or
\* conflicted and whether its agent started or not, and is tried only after
\* all the merges of the round.
C22_WorktreesRemoved ==
    config.mode = "multi" =>
        \A w \in 1..Len(workers) :
            IF rpc \in {"create", "join", "merge", "cleanup"}
            THEN workers[w].worktree = "created"
            ELSE workers[w].worktree \in {"removed", "remove failed"}

\* removal has been tried for a worker whose merge conflicted and for one
\* whose agent never started
C22_Witness ==
    /\ config.mode = "multi"
    /\ rpc = "compliance"
    /\ \E w \in 1..Len(workers) :
          workers[w].conflict /\ workers[w].worktree = "removed"
    /\ \E w \in 1..Len(workers) :
          workers[w].state = "failed" /\ workers[w].worktree = "removed"

---------------------------------------------------------------------------
(* Claims about the interactive run (SpecTui) *)

\* the panes of the list that were not in it before the step
Opened == {k \in 1..Len(panes') :
              \A j \in 1..Len(panes) : panes[j].agent_id # panes'[k].agent_id}

ReplacementFor(fs, c) ==
    LET from == IF Dependents(fs, c) # {} THEN Dependents(fs, c)
                ELSE ClaimableSet(fs)
    IN  {i \in from : \A j \in from \ {i} : Before(fs, i, j)}

\* the replacement loop is at a pane that has exited
AtExitedPane == tpc = "replace" /\ scan <= Len(panes) /\ ~is_alive(panes[scan])

Returned == tpc \in {"nothing_to_do", "quit", "finished"}

NoPendingNoClaimed(fs) ==
    \A i \in 1..Len(fs) : fs[i].status \notin {Pending, Claimed}

C26_CommandModeOneKey ==
    [][ (tpc = "events" /\ key'.read) =>
          /\ command_mode => (key'.to = 0 /\ ~command_mode')
          /\ key'.chord => key'.to = 0
          /\ (~command_mode /\ key'.chord) => command_mode'
          /\ (~command_mode /\ ~key'.chord) =>
                /\ ~command_mode'
                /\ panes' = panes /\ active_pane' = active_pane
                /\ store' = store /\ tpc' = "replace" ]_vars

\* the chord was read in command mode with a pane active: it went to no
\* pane and the mode is normal
C26_Witness ==
    /\ key.read /\ key.chord /\ key.to = 0
    /\ ~command_mode
    /\ active_pane # 0 /\ active_pane <= Len(panes)

---------------------------------------------------------------------------
(* Claims about the grid layout (SpecGrid) *)

\* the cell <<cx, cy>> lies in the rectangle
InRect(r, cx, cy) ==
    /\ r.x <= cx /\ cx < r.x + r.width
    /\ r.y <= cy /\ cy < r.y + r.height

\* C27: for every pane count n from 1 to 9 and every area with positive
\* width and height, the n rectangles grid_rect(area, i, n) lie inside the
\* area, no cell lies in two of them, every cell of the area lies in one,
\* and when the last pane is alone in its row it starts at the area's left
\* edge and has the area's full width.
C27_GridTiles ==
    rects # <<>> =>
        /\ Len(rects) = nr_panes
        /\ \A i \in 1..nr_panes :
              /\ rects[i].x >= area.x
              /\ rects[i].y >= area.y
              /\ rects[i].x + rects[i].width <= area.x + area.width
              /\ rects[i].y + rects[i].height <= area.y + area.height
        /\ \A cx \in area.x..(area.x + area.width - 1) :
              \A cy \in area.y..(area.y + area.height - 1) :
                 Cardinality({i \in 1..nr_panes : InRect(rects[i], cx, cy)}) = 1
        /\ (nr_panes <= 3 \/ nr_panes % 2 = 1) =>
              /\ rects[nr_panes].x = area.x
              /\ rects[nr_panes].width = area.width

\* five panes in an area of odd width whose height is no multiple of three,
\* away from the origin: the fifth pane is alone in the third row
C27_Witness ==
    /\ rects # <<>>
    /\ nr_panes = 5
    /\ area.x = 1 /\ area.y = 1
    /\ area.width = 5 /\ area.height = 4
    /\ rects[5] = Rect(1, 3, 5, 2)
    /\ rects[2] = Rect(3, 1, 3, 1)

---------------------------------------------------------------------------
(* Claims about a pane's threads (SpecPane) *)

\* C28: a pane's exited flag becomes true once either its child process has
\* exited (the exit-watcher has stored) or its reader has hit end-of-file or
\* a read error (the reader has stored), whichever happens first and in any
\* interleaving of the two threads, and not before; once true it never
\* becomes false again.
C28_ExitedSetOnce ==
    [][ /\ exited => exited'
        /\ exited' <=> (watcher' = "done" \/ reader' = "done")
        /\ watcher' = "done" => child' = "exited"
        /\ reader' = "done" => child' \in {"detached", "exited"} ]_vars

\* both threads have stored, the exit-watcher last
C28_Witness ==
    /\ exited
    /\ reader = "done"
    /\ watcher = "done"
    /\ actor = "watcher"

\* C29 as stated: a pane's terminal parser state is mutated only by that
\* pane's reader thread: no other execution context (multiplexer redraw,
\* resize, input routing) ever changes it.
C29_ParserReaderOnly ==
    [][ parser' # parser => actor' = "reader" ]_vars

\* C29 amended: the parser state is changed only by the reader thread, which
\* processes what it read and leaves the size, and by resize_to_inner in the
\* multiplexer's draw, which sets the screen size to a new, non-empty inner
\* size and leaves what was processed; input routing never changes it.
C29_ParserReaderOrResize ==
    [][ parser' # parser =>
          \/ /\ actor' = "reader"
             /\ parser'.size = parser.size
             /\ parser'.processed = parser.processed + 1
          \/ /\ actor' = "draw"
             /\ parser'.processed = parser.processed
             /\ parser'.size = last_size'
             /\ last_size' # last_size
             /\ last_size'[1] # 0 /\ last_size'[2] # 0 ]_vars

\* the draw resized a parser that had processed output
C29_Witness ==
    /\ actor = "draw"
    /\ parser = Parser(<<40, 120>>, 1)
    /\ last_size = <<40, 120>>

\* the number of chunks the writer has passed to libc::write
Written == Len(sent) - Len(chan) - (IF writer.pos = "write" THEN 1 ELSE 0)

\* C30: the pane writer delivers the queued input chunks to the
\* pseudo-terminal in the order they were sent, writing each chunk in full
\* and draining the descriptor before it takes the next chunk, so no input
\* byte is dropped, duplicated or reordered: the pseudo-terminal has taken
\* exactly the bytes of the chunks written so far, in order.
C30_WriterDeliversAll ==
    pty_in = Flatten(SubSeq(sent, 1, Written))

\* the chunks held for the writer: queued in the channel, or received and
\* not yet taken by libc::write
Buffered == Len(chan) + (IF writer.pos = "write" THEN 1 ELSE 0)

\* C31: while a pane's child has stopped reading its terminal and the
\* multiplexer keeps forwarding keystrokes to the pane, the input buffered
\* for the pane's writer stays bounded: it does not grow to hold every one of
\* the MaxChunks keystrokes forwarded, whatever MaxChunks is.
C31_InputBufferBounded ==
    child = "paused" => Buffered < MaxChunks

\* C32: resizing a pane to the size last applied changes nothing and issues
\* no window-size notification, and a size with a zero dimension is ignored;
\* resizing to a different size with positive rows and columns sets the
\* parser's screen size and issues the notification; so after any sequence
\* of resizes last_size, the parser's screen size and the pseudo-terminal's
\* window size are all equal.
C32_ResizeDebounced ==
    [][ /\ resized'.inner # <<>> =>
             IF \/ resized'.inner = last_size
                \/ resized'.inner[1] = 0
                \/ resized'.inner[2] = 0
             THEN /\ ~resized'.ioctl
                  /\ parser' = parser
                  /\ last_size' = last_size
                  /\ winsize' = winsize
             ELSE /\ resized'.ioctl
                  /\ parser' = [parser EXCEPT !.size = resized'.inner]
                  /\ last_size' = resized'.inner
                  /\ winsize' = resized'.inner
        /\ last_size' = parser'.size
        /\ winsize' = parser'.size ]_vars

\* a resize to the size last applied, after a resize that changed the size
C32_Witness ==
    /\ resized = [inner |-> <<40, 120>>, ioctl |-> FALSE]
    /\ last_size = <<40, 120>>
    /\ winsize = <<40, 120>>
    /\ parser.size = <<40, 120>>

\* C33: dropping a pane sends the hang-up signal to its child and closes the
\* pane's master descriptor exactly once, however many times kill() was
\* called on the pane before the drop: the drop makes one more kill call and
\* the one close call of the pane's life, and a dropped pane makes neither.
C33_DropClosesOnce ==
    [][ /\ (dropped' /\ ~dropped) =>
             /\ hups' = hups + 1
             /\ closes' = closes + 1
             /\ master_fd' = -1
        /\ closes' = (IF dropped' THEN 1 ELSE 0)
        /\ dropped => (dropped' /\ hups' = hups /\ closes' = closes) ]_vars

\* the pane was dropped after MaxKills calls of kill()
C33_Witness ==
    /\ dropped
    /\ actor = "drop"
    /\ hups = MaxKills + 1
    /\ closes = 1
    /\ master_fd = -1

---------------------------------------------------------------------------
(* Claims about the order of a round (SpecRun) *)

\* the steps of run_single_agent, each with the step that may follow it
SingleOrder ==
    {<<"start", "check_stop">>, <<"check_stop", "load">>, <<"load", "spawn">>,
     <<"spawn", "wait">>, <<"wait", "compliance">>, <<"compliance", "verify">>,
     <<"verify", "git_sync">>, <<"git_sync", "review">>,
     <<"review", "check_stop">>}

\* the steps at which run_single_agent returns
SingleReturns == {"check_stop", "load", "spawn"}

\* C34: every round of the single-worker loop performs its steps in this
\* order: stop check, all-done check, session-budget check, task selection,
\* executor agent run to completion, compliance check, verification,
\* reopening of failed tasks, git sync, review agent run; the session counter
\* is incremented only after the review step.
C34_SingleRoundOrder ==
    [][ config.mode = "single" =>
          /\ rpc' # rpc =>
                \/ <<rpc, rpc'>> \in SingleOrder
                \/ rpc \in SingleReturns /\ rpc' = "done"
          /\ (rpc = "check_stop" /\ stop) => outcome'.kind = Stopped
          /\ (rpc = "load" /\ rpc' # rpc /\ all_done(store)) =>
                outcome'.kind = AllDone
          /\ (rpc = "load" /\ rpc' # rpc /\ ~all_done(store)
                /\ session >= config.max_sessions) =>
                outcome'.kind = MaxSessions
          /\ rpc' = "spawn" => entries' = select_single(store) /\ entries' # <<>>
          /\ rpc' = "compliance" => workers'[1].state = "exited"
          /\ store' # store => rpc \in {"wait", "verify"}
          /\ (rpc = "verify" /\ store' # store) =>
                \E i \in 1..Len(store) :
                    /\ <<"verify failed", store[i].id>> \in report'
                    /\ store'[i].status = Pending
          /\ session' # session =>
                /\ rpc = "review"
                /\ rpc' = "check_stop"
                /\ session' = session + 1 ]_vars

\* the single-worker loop is at the stop check of its third round, and a
\* verification of the round before failed
C34_Witness ==
    /\ config.mode = "single"
    /\ rpc = "check_stop"
    /\ session = 2
    /\ \E id \in 1..NumRunTasks : <<"verify failed", id>> \in report

---------------------------------------------------------------------------
(* Claims about the background orchestration (SpecOrch) *)

\* C35: whenever a feature has been newly marked done since the background
\* orchestration's previous poll, that poll runs verification over the done
\* and claimed features and reopens every feature that fails.
C35_NewDoneVerified ==
    [][ (opc = "loop" /\ ~stop /\ fresh # {} /\ fresh' = {}) =>
          /\ poll'.ran
          /\ \A i \in 1..Len(store) :
                store[i].id \in poll'.reopened => store'[i].status = Pending ]_vars

---------------------------------------------------------------------------
(* Claims about lists loaded in any state (SpecLoaded) *)

\* the positions next_claimable, next_after and next_n_claimable return on fs
Offered(fs) ==
    ({next_claimable(fs)}
        \cup {next_after(fs, c) : c \in 1..(NumTasks + 1)}
        \cup UNION {SeqToSet(next_n_claimable(fs, n)) : n \in 0..NumTasks})
    \ {0}

\* claim succeeds on every feature the queries offer on the same list
ClaimSucceedsOnOffered ==
    \A i \in Offered(features), w \in Agents :
        claim(features, features[i].id, w).result = Ok

\* C36 as stated: starting from a list in which every Pending task has no
\* claimant, after any sequence of claim, mark_done, mark_blocked and reopen
\* every Pending task has claimed_by = None and blocked_reason = None; hence
\* claim(t, w) succeeds on any task t returned by next_claimable, next_after
\* or next_n_claimable on the same snapshot.
C36_PendingIsClean ==
    /\ \A i \in 1..Len(features) :
          features[i].status = Pending =>
              /\ features[i].claimed_by = None
              /\ features[i].blocked_reason = None
    /\ ClaimSucceedsOnOffered

\* C36 amended: from such a list every Pending task has claimed_by = None
\* after any sequence of the four operations, and claim succeeds on every
\* task the queries return; a Pending task has blocked_reason = None too
\* unless it has been Pending with that reason since the list was loaded:
\* no operation gives a Pending task a reason or leaves one on a task it
\* makes Pending.
C36_PendingUnclaimed ==
    /\ [](\A i \in 1..Len(features) :
            features[i].status = Pending => features[i].claimed_by = None)
    /\ []ClaimSucceedsOnOffered
    /\ [][ \A i \in 1..Len(features') :
             (features'[i].status = Pending
                 /\ features'[i].blocked_reason # None) =>
             features'[i] = features[i] ]_vars

\* feature 2, loaded blocked with a claimant and a reason, has been reopened
\* and is what next_claimable returns, its dependency being done
C36_Witness ==
    /\ ret.op = "reopen"
    /\ ret.id = 2
    /\ features[2].depends_on = <<1>>
    /\ features[1].status = Done
    /\ features[1].claimed_by # None
    /\ next_claimable(features) = 2
    /\ features[2].claimed_by = None
    /\ features[2].blocked_reason = None

\* C37: claim, mark_done, mark_blocked and reopen applied to id t change at
\* most status, claimed_by and blocked_reason of t; the set and order of
\* tasks, every other task, and t's id, kind, priority and depends_on stay
\* unchanged, and when the operation returns an error the whole list is
\* unchanged.
C37_OperationFrame ==
    [][ /\ Len(features') = Len(features)
        /\ \A i \in 1..Len(features) :
              IF features[i].id = ret'.id
              THEN features'[i] =
                       [features[i] EXCEPT
                           !.status = features'[i].status,
                           !.claimed_by = features'[i].claimed_by,
                           !.blocked_reason = features'[i].blocked_reason]
              ELSE features'[i] = features[i]
        /\ ret'.result # Ok => features' = features ]_vars

\* a claim was refused for a dependency that is not done, on a list in
\* which another task is blocked with its claimant
C37_Witness ==
    /\ ret.op = "claim"
    /\ ret.result = DepsNotMet
    /\ ret.id = 2
    /\ features[2].status = Pending
    /\ features[1].status = Blocked
    /\ features[1].claimed_by # None

---------------------------------------------------------------------------
(* Claims about the groups as a partition (SpecMilestone) *)

\* the places <<group, position>> at which id appears in the groups
Places(out, id) ==
    {p \in UNION {{<<k, j>> : j \in 1..Len(out[k].ids)} : k \in 1..Len(out)} :
        out[p[1]].ids[p[2]] = id}

\* C38: the groups returned by milestone_claimable partition the claimable
\* tasks: every id of claimable_ids appears in exactly one group, no other
\* id appears, and no group is empty; this holds also when depends_on
\* contains cycles or ids that name no task.
C38_GroupsPartition ==
    ret.op = "milestone_claimable" =>
        LET out == ret.out IN
        /\ \A id \in SeqToSet(claimable_ids(features)) :
              Cardinality(Places(out, id)) = 1
        /\ \A k \in 1..Len(out) :
              /\ out[k].ids # <<>>
              /\ SeqToSet(out[k].ids) \subseteq SeqToSet(claimable_ids(features))

\* a milestone on a dependency cycle is claimable and is in its own group,
\* a second group follows, and a feature depends on an id that names no task
C38_Witness ==
    /\ ret.op = "milestone_claimable"
    /\ Len(ret.out) >= 2
    /\ \E i \in 1..Len(features) :
          /\ features[i].id \in TransDeps(features, i)
          /\ ret.out[1].ms = features[i].id
          /\ contains(ret.out[1].ids, features[i].id)
    /\ \E i \in 1..Len(features) :
          contains(features[i].depends_on, Len(features) + 1)

---------------------------------------------------------------------------
(* Claims about the focus of the interactive run (SpecTui) *)

\* the agent ids of the panes of a list
PaneAgents(ps) == {ps[j].agent_id : j \in 1..Len(ps)}

\* active_pane is None exactly when there is no pane, and is an index of
\* the list otherwise
ActiveInRange ==
    /\ active_pane = 0 <=> panes = <<>>
    /\ active_pane <= Len(panes)

\* a step removes panes other than the active one and leaves the index at
\* the pane it was at
ActiveFollowsPane ==
    (/\ PaneAgents(panes) \ PaneAgents(panes') # {}
     /\ active_pane # 0
     /\ panes[active_pane].agent_id \in PaneAgents(panes'))
    => /\ active_pane' # 0
       /\ active_pane' <= Len(panes')
       /\ panes'[active_pane'].agent_id = panes[active_pane].agent_id

\* C39: after any sequence of command keys (digit, j/k, n, x), pane exits,
\* replacements and removals of exited panes, the active pane index is None
\* exactly when the pane list is empty and otherwise is smaller than the
\* number of panes; when the active pane itself survives a removal of other
\* panes, the index still refers to the same pane.
C39_ActiveIndexFollowsPane ==
    []ActiveInRange /\ [][ActiveFollowsPane]_vars

---------------------------------------------------------------------------
(* Claims about the end of the interactive run (SpecTuiQuiet) *)

\* C40: if every pane's process eventually exits and the user issues no
\* command, the interactive run eventually terminates, also when a pane
\* fails to spawn after its task was claimed, when an agent exits leaving
\* its task Claimed, or when Pending tasks remain whose dependencies can
\* never become Done.
C40_EventuallyTerminates == <>Returned


=============================================================================
